---- MODULE Spec2Model ----
(***************************************************************************)
(* Model of the revenue calculator of bank.py: get_pnw_market_prices,      *)
(* calculate_nation_revenue and calculate_alliance_revenue.                *)
(*                                                                         *)
(* Number representation (the code computes in floating point):            *)
(*   - resource amounts are kept in thousandths of a unit,                 *)
(*   - money is kept in hundredths (cents),                                *)
(*   - a city's infrastructure is kept in hundredths, so that              *)
(*     base_population = infrastructure * 100 is that same integer,        *)
(*   - populations are kept in hundredths of a person,                     *)
(*   - a quotient that is not exact at its scale is rounded to nearest.    *)
(***************************************************************************)
EXTENDS Integers, Sequences, FiniteSets, TLC

\* ------------------------------------------------------------- arithmetic

Max(a, b) == IF a >= b THEN a ELSE b

Min(a, b) == IF a <= b THEN a ELSE b

\* a / b rounded to the nearest integer, b > 0
RDiv(a, b) == (2 * a + b) \div (2 * b)

\* One base-1024 digit d of a multiplier: from <<q, r>> with a * b = q * c + r
\* to the pair for a * (1024 * b + d); a >= 0, 0 <= d < 1024, 0 < c <= 2^20,
\* so that no intermediate leaves the integer range
MulQRDigit(half, a, d, c) ==
    <<half[1] * 1024 + (a \div c) * d
          + ((half[2] * 1024 + (a % c) * d) \div c),
      (half[2] * 1024 + (a % c) * d) % c>>

\* <<q, r>> with a * b = q * c + r and 0 <= r < c, for a, b >= 0, 0 < c <= 2^20
MulQR(a, b, c) ==
    MulQRDigit(
        MulQRDigit(
            MulQRDigit(
                MulQRDigit(<<0, 0>>, a, b \div 1073741824, c),
                a, (b \div 1048576) % 1024, c),
            a, (b \div 1024) % 1024, c),
        a, b % 1024, c)

\* the quotient <<q, r>> of a division by c rounded to nearest, negated when
\* the dividend was negative
RoundSigned(m, negative, c) ==
    IF negative
    THEN -(m[1] + (IF 2 * m[2] >= c THEN 1 ELSE 0))
    ELSE m[1] + (IF 2 * m[2] >= c THEN 1 ELSE 0)

\* a * b / c rounded to nearest, for b >= 0, 0 < c <= 2^20 and any sign of a
MulDivValue(a, b, c) ==
    RoundSigned(MulQR(IF a < 0 THEN -a ELSE a, b, c), a < 0, c)

\* the same, with the operands bound to their values once
MulDiv(a, b, c) ==
    CHOOSE v \in {MulDivValue(x[1], x[2], c) : x \in {<<a, b>>}} : TRUE

\* round() of the rational n / d (d > 0, n >= 0): ties go to even
RoundHalfEven(n, d) ==
    LET q == n \div d
        r == n % d
    IN IF 2 * r > d THEN q + 1
       ELSE IF 2 * r < d THEN q
       ELSE IF q % 2 = 0 THEN q ELSE q + 1

\* math.log(age_days) in millionths, for the city ages the model draws
LnMicro(age_days) ==
    CASE age_days = 1 -> 0
      [] age_days = 2 -> 693147
      [] age_days = 30 -> 3401197
      [] age_days = 365 -> 5899897
      [] age_days = 366 -> 5902633
      [] age_days = 1000 -> 6907755

\* ------------------------------------------------------------ data model

Resources ==
    {"food", "uranium", "oil", "iron", "coal", "bauxite", "lead",
     "aluminum", "gasoline", "munitions", "steel"}

\* the iteration order of the production dict of calculate_nation_revenue
ResourceOrder ==
    <<"food", "uranium", "oil", "iron", "coal", "bauxite", "lead",
      "aluminum", "gasoline", "munitions", "steel">>

DEFAULT_PRICES ==
    [r \in Resources |->
        CASE r = "food" -> 50
          [] r = "coal" -> 100
          [] r = "oil" -> 150
          [] r = "uranium" -> 400
          [] r = "lead" -> 100
          [] r = "iron" -> 100
          [] r = "bauxite" -> 100
          [] r = "gasoline" -> 175
          [] r = "munitions" -> 250
          [] r = "steel" -> 200
          [] r = "aluminum" -> 150]

\* a city with no improvement, founded on day 0
EmptyCity ==
    [date |-> 0, infrastructure |-> 0, land |-> 0,
     oil_refinery |-> 0, steel_mill |-> 0, aluminum_refinery |-> 0,
     munitions_factory |-> 0,
     uranium_mine |-> 0, oil_well |-> 0, iron_mine |-> 0, coal_mine |-> 0,
     bauxite_mine |-> 0, lead_mine |-> 0, farm |-> 0,
     subway |-> 0, stadium |-> 0, shopping_mall |-> 0, bank |-> 0,
     supermarket |-> 0, police_station |-> 0, hospital |-> 0,
     recycling_center |-> 0,
     nuclear_power |-> 0, coal_power |-> 0, oil_power |-> 0, wind_power |-> 0]

\* a nation with no city, no unit and no project (alliance_id 0 is "no alliance")
EmptyNation ==
    [id |-> 0, num_cities |-> 0, alliance_id |-> 0, color |-> "gray",
     continent |-> "na", domestic_policy |-> "MANIFEST_DESTINY",
     soldiers |-> 0, tanks |-> 0, aircraft |-> 0, ships |-> 0, spies |-> 0,
     missiles |-> 0, nukes |-> 0,
     offensive_wars_count |-> 0, defensive_wars_count |-> 0,
     bauxite_works |-> FALSE, emergency_gasoline_reserve |-> FALSE,
     iron_works |-> FALSE, uranium_enrichment_program |-> FALSE,
     specialized_police_training_program |-> FALSE,
     international_trade_center |-> FALSE,
     telecommunications_satellite |-> FALSE,
     clinical_research_center |-> FALSE, green_technologies |-> FALSE,
     arms_stockpile |-> FALSE, government_support_agency |-> FALSE,
     mass_irrigation |-> FALSE, fallout_shelter |-> FALSE,
     bureau_of_domestic_affairs |-> FALSE, recycling_initiative |-> FALSE,
     cities |-> << >>]

\* game_info with no radiation, game month January
EmptyGameInfo ==
    [game_date_month |-> 1,
     radiation |-> [global |-> 0, north_america |-> 0, south_america |-> 0,
                    europe |-> 0, africa |-> 0, asia |-> 0, australia |-> 0,
                    antarctica |-> 0]]

ZeroProduction == [r \in Resources |-> 0]

\* --------------------------------------------------- per-city computation

\* a faulty age_days: the floor set at two days
AgeDaysFlooredAtTwo(city, today) == Max(2, today - city.date)

\* age_days = max(1, (truncated_date - city_date).days)
AgeDays(city, today) == Max(1, today - city.date)

\* city_age_modifier = 1 + max(ln_age / 15, 0), in millionths
CityAgeModifier(age_days) == 1000000 + Max(RDiv(LnMicro(age_days), 15), 0)

\* base_population = infrastructure * 100 (infrastructure is in hundredths)
BasePopulation(city) == city.infrastructure

\* food eaten by the population, in thousandths
PopulationFormula(city, today) ==
    LET base == BasePopulation(city)
        modifier == CityAgeModifier(AgeDays(city, today))
    IN MulDiv(base, base, 125000) + MulDiv(base, modifier - 1000000, 850000)

\* round(farm * bonus * rate * 100) / 100, in hundredths
BaseFoodProduction(city, nation) ==
    LET rateDen == IF nation.mass_irrigation THEN 400 ELSE 500
        den == 38 * rateDen * (IF nation.continent = "an" THEN 2 ELSE 1)
    IN RoundHalfEven(city.farm * (37 + city.farm) * city.land * 100, den)

\* a faulty seasonal_modifier: Asia counted with the Northern hemisphere
SeasonalModifierAsiaNorthern(nation, game_info) ==
    LET southern == nation.continent \in {"sa", "af"}
        month == game_info.game_date_month
    IN IF nation.continent = "an" THEN 10
       ELSE IF ~southern
            THEN (IF month \in {12, 1, 2} THEN 8
                  ELSE IF month \in {6, 7, 8} THEN 12 ELSE 10)
            ELSE (IF month \in {12, 1, 2} THEN 12
                  ELSE IF month \in {6, 7, 8} THEN 8 ELSE 10)

\* seasonal_modifier, in tenths
SeasonalModifier(nation, game_info) ==
    LET southern == nation.continent \in {"sa", "as", "af"}
        month == game_info.game_date_month
    IN IF nation.continent = "an" THEN 10
       ELSE IF ~southern
            THEN (IF month \in {12, 1, 2} THEN 8
                  ELSE IF month \in {6, 7, 8} THEN 12 ELSE 10)
            ELSE (IF month \in {12, 1, 2} THEN 12
                  ELSE IF month \in {6, 7, 8} THEN 8 ELSE 10)

\* radiation.get(nation["continent"], 0)
ContinentRadiation(nation, game_info) ==
    CASE nation.continent = "na" -> game_info.radiation.north_america
      [] nation.continent = "sa" -> game_info.radiation.south_america
      [] nation.continent = "as" -> game_info.radiation.asia
      [] nation.continent = "an" -> game_info.radiation.antarctica
      [] nation.continent = "eu" -> game_info.radiation.europe
      [] nation.continent = "af" -> game_info.radiation.africa
      [] nation.continent = "au" -> game_info.radiation.australia
      [] OTHER -> 0

\* a faulty food_production: the product without max(..., 0)
FoodProductionUnclamped(city, nation, game_info) ==
    MulDiv(20000 - (IF nation.fallout_shelter THEN 17 ELSE 20)
                   * (ContinentRadiation(nation, game_info)
                      + game_info.radiation.global),
           BaseFoodProduction(city, nation)
           * SeasonalModifier(nation, game_info) * 12, 20000)

\* 12 * max(base_food_production * seasonal_modifier * (1 + radiation_penalty), 0),
\* in thousandths; 1 + radiation_penalty = (20000 - k * index) / 20000 with
\* k = 17 under a fallout shelter and 20 without
FoodProduction(city, nation, game_info) ==
    LET index == ContinentRadiation(nation, game_info) + game_info.radiation.global
        k == IF nation.fallout_shelter THEN 17 ELSE 20
        base == BaseFoodProduction(city, nation)
        seasonal == SeasonalModifier(nation, game_info)
    IN Max(MulDiv(20000 - k * index, base * seasonal * 12, 20000), 0)

\* (infrastructure + 999) // 1000
CurrentInfrastructure1000(city) == (city.infrastructure + 99900) \div 100000

\* (infrastructure + 99) // 100
CurrentInfrastructure100(city) == (city.infrastructure + 9900) \div 10000

\* fuel burnt by the power plants, in thousandths
NuclearUranium(city) ==
    Min(CurrentInfrastructure1000(city), (city.nuclear_power * 2000) \div 1000) * 2400

CoalPowerCoal(city) ==
    Min(CurrentInfrastructure100(city), (city.coal_power * 500) \div 100) * 1200

OilPowerOil(city) ==
    Min(CurrentInfrastructure100(city), (city.oil_power * 500) \div 100) * 1200

\* the multipliers dict, in hundredths
Multipliers(nation) ==
    [oil |-> IF nation.emergency_gasoline_reserve THEN 200 ELSE 100,
     steel |-> IF nation.iron_works THEN 136 ELSE 100,
     uranium |-> IF nation.uranium_enrichment_program THEN 200 ELSE 100,
     aluminum |-> IF nation.bauxite_works THEN 136 ELSE 100,
     munitions |-> IF nation.arms_stockpile THEN 120 ELSE 100]

\* a faulty improvement curve: (k * count + k * (0.5 * (count - 1)) / (5 - 1))
\* * multiplier, the bonus no longer a factor of the count
ImprovementBonusAdded(k, count, multiplier) ==
    RDiv(k * 125 * (8 * count + (count - 1)) * multiplier, 100)

\* (k * count) * (1 + (0.5 * (count - 1)) / (5 - 1)) * multiplier, in thousandths
Improvement(k, count, multiplier) ==
    RDiv(k * 125 * count * (7 + count) * multiplier, 100)

\* what one pass of the city loop adds to the production dict, in thousandths
CityProduction(city, nation, game_info, today) ==
    LET m == Multipliers(nation)
    IN [food |-> FoodProduction(city, nation, game_info)
                 - PopulationFormula(city, today),
        uranium |-> Improvement(3, city.uranium_mine, m.uranium)
                    - NuclearUranium(city),
        oil |-> Improvement(3, city.oil_well, 100)
                - OilPowerOil(city)
                - Improvement(3, city.oil_refinery, m.oil),
        iron |-> Improvement(3, city.iron_mine, 100)
                 - Improvement(3, city.steel_mill, m.steel),
        coal |-> Improvement(3, city.coal_mine, 100)
                 - CoalPowerCoal(city)
                 - Improvement(3, city.steel_mill, m.steel),
        bauxite |-> Improvement(3, city.bauxite_mine, 100)
                    - Improvement(3, city.aluminum_refinery, m.aluminum),
        lead |-> Improvement(3, city.lead_mine, 100)
                 - Improvement(6, city.munitions_factory, 100),
        aluminum |-> Improvement(9, city.aluminum_refinery, m.aluminum),
        gasoline |-> Improvement(6, city.oil_refinery, m.oil),
        munitions |-> Improvement(18, city.munitions_factory, m.munitions),
        steel |-> Improvement(9, city.steel_mill, m.steel)]

\* a faulty commerce_cap: the satellite raises the cap without the trade center
CommerceCapSatelliteAlone(nation) ==
    IF nation.telecommunications_satellite THEN 125
    ELSE IF nation.international_trade_center THEN 115 ELSE 100

\* commerce_cap
CommerceCap(nation) ==
    IF nation.international_trade_center
    THEN (IF nation.telecommunications_satellite THEN 125 ELSE 115)
    ELSE 100

CommerceAddition(nation) ==
    (IF nation.international_trade_center THEN 1 ELSE 0)
    + (IF nation.specialized_police_training_program THEN 4 ELSE 0)
    + (IF nation.telecommunications_satellite THEN 2 ELSE 0)

Commerce(city, nation) ==
    Min(city.supermarket * 4 + city.bank * 6 + city.shopping_mall * 8
        + city.stadium * 10 + city.subway * 8 + CommerceAddition(nation),
        CommerceCap(nation))

\* what one pass of the city loop adds to income["improvement_upkeep"], in cents;
\* resource_production_upkeep_multiplier is 0.9 under green technologies
ImprovementUpkeep(city, nation) ==
    LET g == IF nation.green_technologies THEN 90 ELSE 100
    IN 100 * (city.coal_power * 1200 + city.oil_power * 1800
              + city.nuclear_power * 10500 + city.wind_power * 500
              + city.police_station * 750 + city.hospital * 1000
              + city.recycling_center * 2500 + city.subway * 3250
              + city.supermarket * 600 + city.bank * 1800
              + city.shopping_mall * 5400 + city.stadium * 12150)
       + g * (city.coal_mine * 400 + city.iron_mine * 1600
              + city.lead_mine * 1500 + city.farm * 300
              + city.oil_well * 600 + city.bauxite_mine * 1600
              + city.uranium_mine * 5000 + city.oil_refinery * 4000
              + city.steel_mill * 4000 + city.aluminum_refinery * 2500
              + city.munitions_factory * 3500)

\* pollution_index (an integer: farm * 2 * 0.5, 32 * 0.75 and 40 * 0.75 are whole)
PollutionIndex(city, nation) ==
    LET green == nation.green_technologies
    IN city.coal_power * 8 + city.oil_power * 6 + city.bauxite_mine * 12
       + city.coal_mine * 12
       + (IF green THEN city.farm ELSE city.farm * 2)
       + city.iron_mine * 12 + city.lead_mine * 12 + city.oil_well * 12
       + city.uranium_mine * 20
       + city.oil_refinery * (IF green THEN 24 ELSE 32)
       + city.steel_mill * (IF green THEN 30 ELSE 40)
       + city.aluminum_refinery * (IF green THEN 30 ELSE 40)
       + city.munitions_factory * (IF green THEN 24 ELSE 32)
       + city.police_station * 1 + city.hospital * 4
       - city.recycling_center * (IF nation.recycling_initiative THEN 75 ELSE 70)
       - city.subway * (45 + (IF green THEN 25 ELSE 0))
       + city.shopping_mall * 2 + city.stadium * 5

\* police_modifier and hospital_modifier, in tenths
PoliceModifier(city, nation) ==
    city.police_station
    * (IF nation.specialized_police_training_program THEN 35 ELSE 25)

HospitalModifier(city, nation) ==
    city.hospital * (IF nation.clinical_research_center THEN 35 ELSE 25)

\* (crime_rate / 10) * (100 * infrastructure) - 25, in hundredths of a person,
\* with crime_rate = ((103 - commerce)^2 + infrastructure * 100) / 111111
\*                   - police_modifier
CrimeLoss(city, nation) ==
    LET c == Commerce(city, nation)
        h == city.infrastructure
    IN MulDiv((103 - c) * (103 - c) + h, h * 10, 111111)
       - PoliceModifier(city, nation) * h - 2500

\* population_density in thousandths:
\* base_population / land if land > 0 else 0
PopulationDensity(city) ==
    IF city.land > 0
    THEN RDiv(BasePopulation(city) * 1000, city.land)
    ELSE 0

\* population_density^2 * 100
DensitySquared(city) ==
    MulDiv(PopulationDensity(city), PopulationDensity(city), 10000)

\* (disease_rate * 100 * infrastructure) / 100, in hundredths of a person, with
\* disease_rate = ((density^2 * 0.01) - 25) / 100 + base_population / 100000
\*                + pollution_index * 0.05 - hospital_modifier
DiseaseLoss(city, nation) ==
    LET h == city.infrastructure
    IN MulDiv(DensitySquared(city), h, 1000000) - RDiv(h, 4)
       + MulDiv(h, h, 100000)
       + MulDiv(PollutionIndex(city, nation), h, 20)
       - RDiv(HospitalModifier(city, nation) * h, 10)

\* the final population of the city, in hundredths of a person
Population(city, nation, today) ==
    LET before == BasePopulation(city) * 100
                  - Max(DiseaseLoss(city, nation), 0)
                  - Max(CrimeLoss(city, nation), 0)
    IN MulDiv(before, 1000000 + RDiv(LnMicro(AgeDays(city, today)), 15), 1000000)

\* what one pass of the city loop adds to income["gross_income"], in cents:
\* (((commerce / 50) * 0.725) + 0.725) * population
CityGrossIncome(city, nation, today) ==
    MulDiv(Population(city, nation, today),
           (Commerce(city, nation) + 50) * 145, 10000)

\* ------------------------------------------------- nation-level formulas

\* d.get(key, default) of a dict modelled as a function
Get(d, key, default) == IF key \in DOMAIN d THEN d[key] ELSE default

AddProduction(p, q) == [r \in Resources |-> p[r] + q[r]]

\* peacetime when offensive_wars_count + defensive_wars_count == 0
AtPeace(nation) ==
    nation.offensive_wars_count + nation.defensive_wars_count = 0

\* a faulty soldier_formula: the food of the soldiers taken once per city
SoldierFormulaPerCity(nation) ==
    Len(nation.cities)
    * (IF AtPeace(nation)
       THEN RDiv(nation.soldiers * 1000, 750)
       ELSE RDiv(nation.soldiers * 1000, 500))

\* soldier_formula: soldiers / 750 in peace, soldiers / 500 at war, in thousandths
SoldierFormula(nation) ==
    IF AtPeace(nation)
    THEN RDiv(nation.soldiers * 1000, 750)
    ELSE RDiv(nation.soldiers * 1000, 500)

\* a faulty military upkeep: soldiers cost 1.25 at war as in peace
MilitaryUpkeepPeaceSoldiers(nation) ==
    (IF AtPeace(nation)
     THEN nation.soldiers * 125 + nation.tanks * 5000
          + nation.aircraft * 50000 + nation.ships * 337500
          + nation.missiles * 2100000 + nation.nukes * 3500000
     ELSE nation.soldiers * 125 + nation.tanks * 7500
          + nation.aircraft * 75000 + nation.ships * 506250
          + nation.missiles * 3150000 + nation.nukes * 5250000)
    + nation.spies * 240000

\* income["military_upkeep"] after the spies are added and before the
\* domestic policy, in cents
MilitaryUpkeep(nation) ==
    (IF AtPeace(nation)
     THEN nation.soldiers * 125 + nation.tanks * 5000
          + nation.aircraft * 50000 + nation.ships * 337500
          + nation.missiles * 2100000 + nation.nukes * 3500000
     ELSE nation.soldiers * 188 + nation.tanks * 7500
          + nation.aircraft * 75000 + nation.ships * 506250
          + nation.missiles * 3150000 + nation.nukes * 5250000)
    + nation.spies * 240000

\* a faulty domestic_policy_increase: the bureau of domestic affairs counts
\* without the government support agency
DomesticPolicyIncreaseFlat(nation) ==
    100 + (IF nation.government_support_agency THEN 50 ELSE 0)
        + (IF nation.bureau_of_domestic_affairs THEN 25 ELSE 0)

\* domestic_policy_increase, in hundredths
DomesticPolicyIncrease(nation) ==
    100 + (IF nation.government_support_agency
           THEN 50 + (IF nation.bureau_of_domestic_affairs THEN 25 ELSE 0)
           ELSE 0)

\* income["gross_income"] after the domestic policy
PolicyGrossIncome(nation, gross_income) ==
    IF nation.domestic_policy = "OPEN_MARKETS"
    THEN MulDiv(gross_income, 10000 + DomesticPolicyIncrease(nation), 10000)
    ELSE gross_income

\* a faulty policy step: IMPERIALISM leaves the spies' upkeep out
PolicyMilitaryUpkeepBeforeSpies(nation, military_upkeep) ==
    IF nation.domestic_policy = "IMPERIALISM"
    THEN MulDiv(military_upkeep - nation.spies * 240000,
                2000 - DomesticPolicyIncrease(nation), 2000)
         + nation.spies * 240000
    ELSE military_upkeep

\* income["military_upkeep"] after the domestic policy
PolicyMilitaryUpkeep(nation, military_upkeep) ==
    IF nation.domestic_policy = "IMPERIALISM"
    THEN MulDiv(military_upkeep, 2000 - DomesticPolicyIncrease(nation), 2000)
    ELSE military_upkeep

\* a faulty color_bonus: the beige branch is missing
ColorBonusAllianceOnly(nation, alliance_color, color_bonuses) ==
    12 * 100 * (IF nation.color = alliance_color
                THEN Get(color_bonuses, alliance_color, 0)
                ELSE 0)

\* color_bonus, in cents (the table holds whole turn bonuses)
ColorBonus(nation, alliance_color, color_bonuses) ==
    12 * 100 * (IF nation.color = alliance_color
                THEN Get(color_bonuses, alliance_color, 0)
                ELSE IF nation.color = "beige"
                     THEN Get(color_bonuses, "beige", 0)
                     ELSE 0)

\* a faulty monetary_value: a resource the table lacks is valued at its
\* default price
MonetaryValueDefaultPrice(production, market_prices, resource) ==
    MulDiv(production[resource],
           Get(market_prices, resource, DEFAULT_PRICES[resource]), 10)

\* monetary_value = amount * float(market_prices.get(resource, 0)), in cents
MonetaryValue(production, market_prices, resource) ==
    MulDiv(production[resource], Get(market_prices, resource, 0), 10)

MonetaryResources(production, market_prices) ==
    [r \in Resources |->
        [amount |-> production[r],
         value |-> MonetaryValue(production, market_prices, r)]]

\* total_monetary_value: the values summed in the order of the production dict
RECURSIVE SumValues(_, _, _)
SumValues(production, market_prices, i) ==
    IF i = 0 THEN 0
    ELSE SumValues(production, market_prices, i - 1)
         + MonetaryValue(production, market_prices, ResourceOrder[i])

TotalMonetaryValue(production, market_prices) ==
    SumValues(production, market_prices, Len(ResourceOrder))

\* the part of calculate_nation_revenue after the city loop: production and
\* income are the sums the loop left
Revenue(nation, production, income, color_bonuses, market_prices, alliance_color) ==
    LET military == PolicyMilitaryUpkeep(nation, MilitaryUpkeep(nation))
        gross == PolicyGrossIncome(nation, income.gross_income)
        final == [production EXCEPT !.food = @ - SoldierFormula(nation)]
        color_bonus == ColorBonus(nation, alliance_color, color_bonuses)
        total_monetary_value == TotalMonetaryValue(final, market_prices)
        gross_income == color_bonus + gross
        gross_upkeep == income.improvement_upkeep + military
        net_income == gross_income - gross_upkeep
    IN [kind |-> "report",
        nation_id |-> nation.id,
        num_cities |-> nation.num_cities,
        production |-> final,
        monetary_resources |-> MonetaryResources(final, market_prices),
        total_monetary_value |-> total_monetary_value,
        income |-> [gross_income |-> gross,
                    color_bonus |-> color_bonus,
                    gross_total |-> gross_income,
                    military_upkeep |-> military,
                    improvement_upkeep |-> income.improvement_upkeep,
                    gross_upkeep |-> gross_upkeep,
                    net_income |-> net_income,
                    monetary_net_income |-> net_income + total_monetary_value]]

\* the sums the city loop leaves after its first i passes
RECURSIVE CityLoop(_, _, _, _)
CityLoop(nation, game_info, today, i) ==
    IF i = 0
    THEN [production |-> ZeroProduction,
          income |-> [gross_income |-> 0, military_upkeep |-> 0,
                      improvement_upkeep |-> 0]]
    ELSE LET before == CityLoop(nation, game_info, today, i - 1)
             city == nation.cities[i]
         IN [production |->
                 AddProduction(before.production,
                               CityProduction(city, nation, game_info, today)),
             income |->
                 [gross_income |->
                      before.income.gross_income
                      + CityGrossIncome(city, nation, today),
                  military_upkeep |-> 0,
                  improvement_upkeep |->
                      before.income.improvement_upkeep
                      + ImprovementUpkeep(city, nation)]]

\* ------------------------------------------------ get_pnw_market_prices

\* The cache file as json.load sees it:
\*   [kind |-> "absent"]    os.path.exists is false
\*   [kind |-> "not_json"]  json.load raises JSONDecodeError
\*   [kind |-> "list"]      valid JSON that is not an object
\*   [kind |-> "object", ts_kind, timestamp, prices_kind, prices]
\*       ts_kind is "number" (the value is timestamp), "missing" (no such
\*       key) or "text" (a JSON string); prices_kind is "table" (the value is
\*       prices), "missing" or "null"
CacheAbsent == [kind |-> "absent"]

CacheObject(ts_kind, t, prices_kind, p) ==
    [kind |-> "object", ts_kind |-> ts_kind, timestamp |-> t,
     prices_kind |-> prices_kind, prices |-> p]

\* the cache test with the boundary second included
CacheFreshInclusive(cache_file, now) ==
    now - (IF cache_file.ts_kind = "missing" THEN 0 ELSE cache_file.timestamp)
    <= 7200

\* time.time() - cache_time < 7200, with cache_data.get('timestamp', 0)
CacheFresh(cache_file, now) ==
    now - (IF cache_file.ts_kind = "missing" THEN 0 ELSE cache_file.timestamp)
    < 7200

\* the result of the cache read at the top of get_pnw_market_prices:
\* "hit" with the value returned, "miss" when the code goes on to the API,
\* "raised" for an exception the except clause does not name
ReadCache(cache_file, now) ==
    CASE cache_file.kind = "absent" -> [kind |-> "miss"]
      [] cache_file.kind = "not_json" -> [kind |-> "miss"]
      [] cache_file.kind = "list" -> [kind |-> "raised", error |-> "AttributeError"]
      [] cache_file.kind = "object" ->
          IF cache_file.ts_kind = "text"
          THEN [kind |-> "raised", error |-> "TypeError"]
          ELSE IF CacheFresh(cache_file, now)
               THEN (IF cache_file.prices_kind = "missing"
                     THEN [kind |-> "hit",
                           value |-> [kind |-> "table", prices |-> DEFAULT_PRICES]]
                     ELSE IF cache_file.prices_kind = "null"
                          THEN [kind |-> "hit", value |-> [kind |-> "none"]]
                          ELSE [kind |-> "hit",
                                value |-> [kind |-> "table",
                                           prices |-> cache_file.prices]])
               ELSE [kind |-> "miss"]

\* prices = DEFAULT_PRICES.copy() overlaid with the entries of trade_data
\* that are present and not None
OverlayPrices(trade_data) ==
    [r \in Resources |-> Get(trade_data, r, DEFAULT_PRICES[r])]

\* The answer of the trade-prices request:
\*   [kind |-> "exception"]   the post or response.json() raises
\*   [kind |-> "status"]      a status other than 200
\*   [kind |-> "no_data"]     200 and a body without trade prices
\*   [kind |-> "ok", trade_data |-> d]
\* The whole call: what it returns or raises, and the cache file it leaves.
GetPnwMarketPrices(cache_file, api_key, now, response) ==
    LET read == ReadCache(cache_file, now)
        default == [kind |-> "table", prices |-> DEFAULT_PRICES]
    IN IF read.kind = "raised"
       THEN [result |-> read, cache_file |-> cache_file]
       ELSE IF read.kind = "hit"
       THEN [result |-> read.value, cache_file |-> cache_file]
       ELSE IF ~api_key
       THEN [result |-> default, cache_file |-> cache_file]
       ELSE IF response.kind = "ok"
       THEN [result |-> [kind |-> "table",
                         prices |-> OverlayPrices(response.trade_data)],
             cache_file |-> CacheObject("number", now, "table",
                                        OverlayPrices(response.trade_data))]
       ELSE [result |-> default, cache_file |-> cache_file]

\* ------------------------------------------------------------------ state

VARIABLES
    world,          \* what the upstream API answers during this run
    today,          \* datetime.now() truncated to a day number
    now,            \* time.time(), in seconds
    cache_file,     \* market_prices_cache.json
    \* one call of get_pnw_market_prices made on its own
    prices_result,  \* what the last call returned or raised
    price_calls,    \* how many calls were made
    \* one call of calculate_nation_revenue
    pc,             \* where the call stands
    nation_id, nation, game_info, color_bonuses, market_prices,
    alliance_color, production, income,
    city_index,     \* how many passes of the city loop are done
    population,     \* the local population after the last pass
    result,         \* what the call returned or raised
    events,         \* history: the fetches and city passes of the call, in order
    \* one call of calculate_alliance_revenue
    a_pc,           \* where the call stands
    alliance_data, a_game_info, member_nations,
    member_index,   \* how many members the loop has gone through
    alliance_production, alliance_income, alliance_monetary_resources,
    alliance_total_monetary_value, total_cities, processed_nations,
    failed_nations, member_results,
    a_result,       \* what the call returned or raised
    calls,          \* history: the nation ids calculate_nation_revenue was called with
    returned,       \* history: what each of these calls returned or raised
    a_events,       \* history: the awaits of the alliance call, in order
    \* one PnwApiLimiter and the coroutines calling execute_request
    requests_per_minute,
    request_times,  \* self.request_times
    lock,           \* self.lock: its holder, then the coroutines waiting for it
    clock,          \* time.time(), in tenths of a second
    l_pc,           \* where each call of execute_request stands
    wake_at,        \* when the sleep of each call is over
    l_result,       \* what the last call of each coroutine returned
    dispatched,     \* history: every timestamp recorded, in order
    started,        \* how many calls of execute_request were made
    \* bank_history.json and the handlers that load and save it
    bank_history,   \* the content of the file
    m_pc,           \* where each on_message handler stands
    m_capture,      \* the timestamp and TARS response each handler holds
    captures,       \* how many $get_bank messages were handled
    h_pc,           \* where hourly_member_resources_collection stands
    h_history,      \* its local history_data
    hourly_runs,    \* how many times the hourly task ran
    s_pc,           \* where scan_message_history stands
    s_history,      \* its local history_data
    scans,          \* how many times scan_history was invoked
    saved           \* history: every bank record on_message saved

envVars == <<world, today, now, cache_file>>

priceVars == <<prices_result, price_calls>>

nationVars ==
    <<pc, nation_id, nation, game_info, color_bonuses, market_prices,
      alliance_color, production, income, city_index, population, result,
      events>>

allianceVars ==
    <<a_pc, alliance_data, a_game_info, member_nations, member_index,
      alliance_production, alliance_income, alliance_monetary_resources,
      alliance_total_monetary_value, total_cities, processed_nations,
      failed_nations, member_results, a_result, calls, returned, a_events>>

limiterVars ==
    <<requests_per_minute, request_times, lock, clock, l_pc, wake_at,
      l_result, dispatched, started>>

bankVars ==
    <<bank_history, m_pc, m_capture, captures, h_pc, h_history, hourly_runs,
      s_pc, s_history, scans, saved>>

vars ==
    <<envVars, priceVars, nationVars, allianceVars, limiterVars, bankVars>>

None == [kind |-> "None"]

ZeroIncome == [gross_income |-> 0, military_upkeep |-> 0, improvement_upkeep |-> 0]

\* ------------------------------------------------------- PnwApiLimiter

MaxCallers == 2

MaxRequests == 4

MaxClock == 1204

\* the coroutines that call execute_request on the one limiter
Callers == 1..MaxCallers

\* the values of requests_per_minute the limiter is constructed with
Limits == {1, 2}

\* the tenths of a second the clock moves by between two steps of the
\* event loop: just under, exactly and just over half a minute
Steps == {299, 300, 301}

\* what session.post gives: a 200 response, another status, an exception
PostAnswers == {"json", "status", "exception"}

\* a faulty pruning: the timestamps of the last 30 seconds are kept
PruneHalfMinute(times, current_time) ==
    SelectSeq(times, LAMBDA t : current_time - t < 300)

\* [t for t in self.request_times if current_time - t < 60]
Prune(times, current_time) ==
    SelectSeq(times, LAMBDA t : current_time - t < 600)

\* min(self.request_times)
OldestRequest(times) ==
    CHOOSE t \in {times[i] : i \in DOMAIN times} :
        \A i \in DOMAIN times : t <= times[i]

\* 60 - (current_time - oldest_request) + 0.1
WaitTime(times, current_time) ==
    600 - (current_time - OldestRequest(times)) + 1

\* self.request_times.append(time.time()), and the post that follows
Dispatch(caller, times) ==
    /\ request_times' = Append(times, clock)
    /\ dispatched' = Append(dispatched, clock)
    /\ l_pc' = [l_pc EXCEPT ![caller] = "post"]
    /\ UNCHANGED wake_at

\* the body of execute_request from the moment the lock is held up to its
\* first await: the sleep, or the post
UnderLock(caller) ==
    \E pruned \in {Prune(request_times, clock)} :
        IF /\ Len(pruned) >= requests_per_minute
           /\ WaitTime(pruned, clock) > 0
        THEN /\ request_times' = pruned
             /\ wake_at' = [wake_at EXCEPT
                               ![caller] = clock + WaitTime(pruned, clock)]
             /\ l_pc' = [l_pc EXCEPT ![caller] = "sleep"]
             /\ UNCHANGED dispatched
        ELSE Dispatch(caller, pruned)

\* a coroutine calls execute_request: with the lock free it goes on at once,
\* otherwise it queues behind the holder
ExecuteRequest(caller) ==
    /\ l_pc[caller] = "idle"
    /\ started < MaxRequests
    /\ started' = started + 1
    /\ IF lock = << >>
       THEN /\ lock' = <<caller>>
            /\ UnderLock(caller)
       ELSE /\ lock' = Append(lock, caller)
            /\ l_pc' = [l_pc EXCEPT ![caller] = "acquire"]
            /\ UNCHANGED <<request_times, wake_at, dispatched>>
    /\ UNCHANGED <<requests_per_minute, clock, l_result>>
    /\ UNCHANGED <<envVars, priceVars, nationVars, allianceVars, bankVars>>

\* a faulty step: a waiting coroutine goes on while the lock is still held
LockAcquiredWhileHeld(caller) ==
    /\ l_pc[caller] = "acquire"
    /\ UnderLock(caller)
    /\ UNCHANGED <<requests_per_minute, lock, clock, l_result, started>>
    /\ UNCHANGED <<envVars, priceVars, nationVars, allianceVars, bankVars>>

\* the lock is released to the first coroutine waiting for it
LockAcquired(caller) ==
    /\ l_pc[caller] = "acquire"
    /\ Head(lock) = caller
    /\ UnderLock(caller)
    /\ UNCHANGED <<requests_per_minute, lock, clock, l_result, started>>
    /\ UNCHANGED <<envVars, priceVars, nationVars, allianceVars, bankVars>>

\* asyncio.sleep(wait_time) is over: not before wait_time has passed
SleepOver(caller) ==
    /\ l_pc[caller] = "sleep"
    /\ clock >= wake_at[caller]
    /\ Dispatch(caller, request_times)
    /\ UNCHANGED <<requests_per_minute, lock, clock, l_result, started>>
    /\ UNCHANGED <<envVars, priceVars, nationVars, allianceVars, bankVars>>

\* the post is answered; execute_request returns and leaves the lock
PostReturns(caller) ==
    /\ l_pc[caller] = "post"
    /\ \E answer \in PostAnswers :
          l_result' = [l_result EXCEPT
                          ![caller] = IF answer = "json"
                                      THEN [kind |-> "json"] ELSE None]
    /\ lock' = Tail(lock)
    /\ l_pc' = [l_pc EXCEPT ![caller] = "idle"]
    /\ UNCHANGED <<requests_per_minute, request_times, clock, wake_at,
                   dispatched, started>>
    /\ UNCHANGED <<envVars, priceVars, nationVars, allianceVars, bankVars>>

\* time.time() moves on
TimePasses ==
    /\ \E step \in Steps :
          /\ clock + step <= MaxClock
          /\ clock' = clock + step
    /\ UNCHANGED <<requests_per_minute, request_times, lock, l_pc, wake_at,
                   l_result, dispatched, started>>
    /\ UNCHANGED <<envVars, priceVars, nationVars, allianceVars, bankVars>>

LimiterNext ==
    \/ \E caller \in Callers : ExecuteRequest(caller)
    \/ \E caller \in Callers : LockAcquired(caller)
    \/ \E caller \in Callers : SleepOver(caller)
    \/ \E caller \in Callers : PostReturns(caller)
    \/ TimePasses

\* PnwApiLimiter.__init__, before any call
LimiterIdle ==
    /\ request_times = << >>
    /\ lock = << >>
    /\ clock = 0
    /\ l_pc = [caller \in Callers |-> "idle"]
    /\ wake_at = [caller \in Callers |-> 0]
    /\ l_result = [caller \in Callers |-> None]
    /\ dispatched = << >>
    /\ started = 0

\* ----------------------------------------------------- bank_history.json

MaxHandlers == 2
MaxCaptures == 2
MaxHourlyRuns == 1
MaxScans == 1

Handlers == 1..MaxHandlers

\* the file the start of the bot creates when it is missing:
\* {"alliance_id": None, "bank_records": [], "member_resources_records": []}
EmptyHistory ==
    [alliance_id |-> 0, bank_records |-> << >>,
     member_resources_records |-> << >>]

\* no handler is running and the file is as the start of the bot left it
BankIdle ==
    /\ bank_history = EmptyHistory
    /\ m_pc = [handler \in Handlers |-> "idle"]
    /\ m_capture = [handler \in Handlers |-> None]
    /\ captures = 0
    /\ h_pc = "idle"
    /\ h_history = None
    /\ hourly_runs = 0
    /\ s_pc = "idle"
    /\ s_history = None
    /\ scans = 0
    /\ saved = {}

\* pnw_api_limiter = PnwApiLimiter(), which the revenue functions leave alone
DefaultLimiter ==
    /\ requests_per_minute = 60
    /\ LimiterIdle
    /\ BankIdle

\* ------------------------------------------- calculate_nation_revenue

\* the locals of a call that has not started
NationIdle ==
    /\ pc = "idle"
    /\ nation_id = 0
    /\ nation = None
    /\ game_info = None
    /\ color_bonuses = << >>
    /\ market_prices = None
    /\ alliance_color = "None"
    /\ production = ZeroProduction
    /\ income = ZeroIncome
    /\ city_index = 0
    /\ population = 0
    /\ result = None
    /\ events = << >>

\* the call is entered with nation_id = id
EnterNationRevenue(id) ==
    /\ pc' = "fetch_nation_data"
    /\ nation_id' = id
    /\ nation' = None
    /\ game_info' = None
    /\ color_bonuses' = << >>
    /\ market_prices' = None
    /\ alliance_color' = "None"
    /\ production' = ZeroProduction
    /\ income' = ZeroIncome
    /\ city_index' = 0
    /\ population' = 0
    /\ result' = None
    /\ events' = << >>

\* the call ends by raising the exception a fetch raised
Raise(error) ==
    /\ pc' = "done"
    /\ result' = [kind |-> "raised", error |-> error]

\* the call ends by returning {"error": message}
ReturnError(message) ==
    /\ pc' = "done"
    /\ result' = [kind |-> "error", error |-> message]

\* nation = await fetch_nation_data(nation_id); if not nation: return error
FetchNationData ==
    /\ pc = "fetch_nation_data"
    /\ LET resp == world.calls[nation_id].nation
       IN /\ events' = Append(events, "fetch_nation_data")
          /\ IF resp.kind = "exception"
             THEN Raise("ClientError") /\ UNCHANGED nation
             ELSE IF resp.kind = "ok"
                  THEN /\ nation' = resp.nation
                       /\ pc' = "fetch_game_info"
                       /\ UNCHANGED result
                  ELSE ReturnError("Nation non trouvee") /\ UNCHANGED nation
    /\ UNCHANGED <<nation_id, game_info, color_bonuses, market_prices,
                   alliance_color, production, income, city_index, population>>
    /\ UNCHANGED <<envVars, limiterVars, bankVars, priceVars, allianceVars>>

\* a faulty fetch_game_info step: an answer without game info does not end
\* the call, which goes on with a game_info of no radiation
FetchGameInfoDefaulted ==
    /\ pc = "fetch_game_info"
    /\ LET resp == world.calls[nation_id].game
       IN /\ events' = Append(events, "fetch_game_info")
          /\ IF resp.kind = "exception"
             THEN Raise("ClientError") /\ UNCHANGED game_info
             ELSE /\ game_info' =
                        (IF resp.kind = "ok" THEN resp.game_info ELSE EmptyGameInfo)
                  /\ pc' = "fetch_color_data"
                  /\ UNCHANGED result
    /\ UNCHANGED <<nation_id, nation, color_bonuses, market_prices,
                   alliance_color, production, income, city_index, population>>
    /\ UNCHANGED <<envVars, limiterVars, bankVars, priceVars, allianceVars>>

\* game_info = await fetch_game_info(); if not game_info: return error
FetchGameInfo ==
    /\ pc = "fetch_game_info"
    /\ LET resp == world.calls[nation_id].game
       IN /\ events' = Append(events, "fetch_game_info")
          /\ IF resp.kind = "exception"
             THEN Raise("ClientError") /\ UNCHANGED game_info
             ELSE IF resp.kind = "ok"
                  THEN /\ game_info' = resp.game_info
                       /\ pc' = "fetch_color_data"
                       /\ UNCHANGED result
                  ELSE /\ ReturnError("Impossible de recuperer les informations du jeu")
                       /\ UNCHANGED game_info
    /\ UNCHANGED <<nation_id, nation, color_bonuses, market_prices,
                   alliance_color, production, income, city_index, population>>
    /\ UNCHANGED <<envVars, limiterVars, bankVars, priceVars, allianceVars>>

\* color_bonuses = await fetch_color_data(): {} unless the answer holds colors
FetchColorData ==
    /\ pc = "fetch_color_data"
    /\ LET resp == world.colors
       IN /\ events' = Append(events, "fetch_color_data")
          /\ IF resp.kind = "exception"
             THEN Raise("ClientError") /\ UNCHANGED color_bonuses
             ELSE /\ color_bonuses' = (IF resp.kind = "ok" THEN resp.colors ELSE << >>)
                  /\ pc' = "get_pnw_market_prices"
                  /\ UNCHANGED result
    /\ UNCHANGED <<nation_id, nation, game_info, market_prices,
                   alliance_color, production, income, city_index, population>>
    /\ UNCHANGED <<envVars, limiterVars, bankVars, priceVars, allianceVars>>

\* market_prices = await get_pnw_market_prices()
FetchMarketPrices ==
    /\ pc = "get_pnw_market_prices"
    /\ LET got == GetPnwMarketPrices(cache_file, world.api_key, now, world.trade)
       IN /\ events' = Append(events, "get_pnw_market_prices")
          /\ cache_file' = got.cache_file
          /\ IF got.result.kind = "raised"
             THEN Raise(got.result.error) /\ UNCHANGED market_prices
             ELSE /\ market_prices' = got.result
                  /\ pc' = "alliance_color"
                  /\ UNCHANGED result
    /\ UNCHANGED <<nation_id, nation, game_info, color_bonuses,
                   alliance_color, production, income, city_index, population>>
    /\ UNCHANGED <<world, today, now, limiterVars, bankVars, priceVars, allianceVars>>

\* a faulty step: the city loop entered without the alliances query
FetchAllianceColorSkipped ==
    /\ pc = "alliance_color"
    /\ alliance_color' = "None"
    /\ pc' = "cities"
    /\ UNCHANGED <<nation_id, nation, game_info, color_bonuses, market_prices,
                   production, income, city_index, population, result, events>>
    /\ UNCHANGED <<envVars, limiterVars, bankVars, priceVars, allianceVars>>

\* alliance_color = None; if nation.get("alliance_id"): the inline alliances query
FetchAllianceColor ==
    /\ pc = "alliance_color"
    /\ LET resp == world.alliance_color
       IN IF nation.alliance_id = 0
          THEN /\ alliance_color' = "None"
               /\ pc' = "cities"
               /\ UNCHANGED <<result, events>>
          ELSE /\ events' = Append(events, "alliance_color")
               /\ IF resp.kind = "exception"
                  THEN Raise("ClientError") /\ UNCHANGED alliance_color
                  ELSE /\ alliance_color' =
                              (IF resp.kind = "ok" THEN resp.color ELSE "None")
                       /\ pc' = "cities"
                       /\ UNCHANGED result
    /\ UNCHANGED <<nation_id, nation, game_info, color_bonuses, market_prices,
                   production, income, city_index, population>>
    /\ UNCHANGED <<envVars, limiterVars, bankVars, priceVars, allianceVars>>

\* one pass of: for city in nation["cities"]
ComputeCity ==
    /\ pc = "cities"
    /\ city_index < Len(nation.cities)
    /\ \E city \in {nation.cities[city_index + 1]} :
       \E added \in {CityProduction(city, nation, game_info, today)} :
          /\ production' = AddProduction(production, added)
          /\ income' =
                [income EXCEPT
                    !.improvement_upkeep = @ + ImprovementUpkeep(city, nation),
                    !.gross_income = @ + CityGrossIncome(city, nation, today)]
          /\ population' = Population(city, nation, today)
    /\ city_index' = city_index + 1
    /\ events' = Append(events, "city")
    /\ UNCHANGED <<pc, nation_id, nation, game_info, color_bonuses,
                   market_prices, alliance_color, result>>
    /\ UNCHANGED <<envVars, limiterVars, bankVars, priceVars, allianceVars>>

\* the code after the city loop: military upkeep, domestic policy, color bonus,
\* monetary value, and the return; market_prices.get raises on None
FinishNationRevenue ==
    /\ pc = "cities"
    /\ city_index = Len(nation.cities)
    /\ IF market_prices.kind = "table"
       THEN \E report \in {Revenue(nation, production, income, color_bonuses,
                                    market_prices.prices, alliance_color)} :
               /\ result' = report
               /\ production' = report.production
               /\ income' = [income EXCEPT
                                !.gross_income = report.income.gross_income,
                                !.military_upkeep = report.income.military_upkeep]
               /\ pc' = "done"
       ELSE /\ Raise("AttributeError")
            /\ production' =
                   [production EXCEPT !.food = @ - SoldierFormula(nation)]
            /\ income' = [income EXCEPT
                             !.gross_income = PolicyGrossIncome(nation, @),
                             !.military_upkeep =
                                 PolicyMilitaryUpkeep(nation, MilitaryUpkeep(nation))]
    /\ UNCHANGED <<nation_id, nation, game_info, color_bonuses, market_prices,
                   alliance_color, city_index, population, events>>
    /\ UNCHANGED <<envVars, limiterVars, bankVars, priceVars, allianceVars>>

NationNext ==
    \/ FetchNationData
    \/ FetchGameInfo
    \/ FetchColorData
    \/ FetchMarketPrices
    \/ FetchAllianceColor
    \/ ComputeCity
    \/ FinishNationRevenue

\* ------------------------------------------------------------- the inputs

MaxCities == 2

\* 1000.00 infrastructure on 2000 land, founded 365 days ago
CityA ==
    [EmptyCity EXCEPT !.date = 635, !.infrastructure = 100000, !.land = 2000,
                      !.farm = 10, !.coal_power = 2, !.steel_mill = 3,
                      !.coal_mine = 1, !.police_station = 1, !.bank = 2]

\* 1000.00 infrastructure on 100 land, founded today, no improvement
CityB ==
    [EmptyCity EXCEPT !.date = 1000, !.infrastructure = 100000, !.land = 100]

\* 500.50 infrastructure on 1500 land, founding date in the future
CityC ==
    [EmptyCity EXCEPT !.date = 1005, !.infrastructure = 50050, !.land = 1500,
                      !.nuclear_power = 1, !.uranium_mine = 2,
                      !.oil_refinery = 1, !.oil_well = 2,
                      !.aluminum_refinery = 2, !.munitions_factory = 1,
                      !.lead_mine = 4, !.supermarket = 3, !.subway = 1,
                      !.hospital = 1, !.recycling_center = 1, !.stadium = 1]

\* 2000.00 infrastructure on 3000 land with every commerce improvement at the
\* game's maximum: 4 * 4 + 5 * 6 + 4 * 8 + 3 * 10 + 1 * 8 = 116
CityD ==
    [EmptyCity EXCEPT !.date = 635, !.infrastructure = 200000, !.land = 3000,
                      !.supermarket = 4, !.bank = 5, !.shopping_mall = 4,
                      !.stadium = 3, !.subway = 1, !.police_station = 2,
                      !.hospital = 2]

Cities == {CityA, CityB, CityC}

CityLists == UNION {[1..n -> Cities] : n \in 0..MaxCities}

NoUnits ==
    [soldiers |-> 0, tanks |-> 0, aircraft |-> 0, ships |-> 0, spies |-> 0,
     missiles |-> 0, nukes |-> 0]

Militaries ==
    {NoUnits,
     [NoUnits EXCEPT !.soldiers = 1500],
     [NoUnits EXCEPT !.spies = 3],
     [NoUnits EXCEPT !.tanks = 10, !.ships = 2],
     [NoUnits EXCEPT !.soldiers = 750, !.aircraft = 5, !.spies = 2,
                     !.missiles = 1, !.nukes = 1]}

Wars == {<<0, 0>>, <<1, 0>>, <<0, 2>>}

Policies == {"OPEN_MARKETS", "IMPERIALISM", "MANIFEST_DESTINY"}

WithCities(n, cities) ==
    [n EXCEPT !.cities = cities, !.num_cities = Len(cities)]

WithMilitary(n, m, w) ==
    [n EXCEPT !.soldiers = m.soldiers, !.tanks = m.tanks,
              !.aircraft = m.aircraft, !.ships = m.ships, !.spies = m.spies,
              !.missiles = m.missiles, !.nukes = m.nukes,
              !.offensive_wars_count = w[1], !.defensive_wars_count = w[2]]

\* every project that changes a city formula, on or off together
WithCityProjects(n, on) ==
    [n EXCEPT !.bauxite_works = on, !.emergency_gasoline_reserve = on,
              !.iron_works = on, !.uranium_enrichment_program = on,
              !.specialized_police_training_program = on,
              !.international_trade_center = on,
              !.telecommunications_satellite = on,
              !.clinical_research_center = on, !.green_technologies = on,
              !.arms_stockpile = on, !.mass_irrigation = on,
              !.fallout_shelter = on, !.recycling_initiative = on]

Nation1 == [EmptyNation EXCEPT !.id = 1]

JanuaryGame == EmptyGameInfo

JulyGame ==
    [game_date_month |-> 7,
     radiation |-> [EmptyGameInfo.radiation EXCEPT
                       !.global = 50, !.north_america = 100,
                       !.antarctica = 1200]]

OkNation(n) == [kind |-> "ok", nation |-> n]

OkGame(g) == [kind |-> "ok", game_info |-> g]

Failure(kind) == [kind |-> kind]

ColorTable == [green |-> 3, beige |-> 5]

OkColors == [kind |-> "ok", colors |-> ColorTable]

\* trade prices of two resources only; the others are absent from the answer
OkTrade == [kind |-> "ok", trade_data |-> [food |-> 131, steel |-> 4000]]

\* a cached table that lacks most resources
PartialPrices == [food |-> 120, uranium |-> 3000, coal |-> 90]

\* the answers of a run in which every fetch succeeds, for the nation n
World(n, g) ==
    [calls |-> [id \in {n.id} |-> [nation |-> OkNation(n), game |-> OkGame(g)]],
     colors |-> OkColors,
     trade |-> OkTrade,
     alliance_color |-> [kind |-> "ok", color |-> "green"],
     api_key |-> TRUE,
     alliance |-> Failure("empty"),
     a_game |-> Failure("empty")]

\* nations that differ by their cities, continent and city projects
CityNations ==
    {WithCityProjects(WithCities([Nation1 EXCEPT !.continent = c], cl), on) :
        c \in {"na", "sa", "an"}, cl \in CityLists, on \in BOOLEAN}

\* nations that differ by their military, wars, policy and policy projects
MilitaryNations ==
    {[WithMilitary(WithCities(Nation1, <<CityA>>), m, w) EXCEPT
         !.domestic_policy = p,
         !.government_support_agency = gsa,
         !.bureau_of_domestic_affairs = bda,
         !.color = c] :
        m \in Militaries, w \in Wars, p \in Policies,
        gsa \in BOOLEAN, bda \in BOOLEAN, c \in {"gray", "beige"}}

\* nations with soldiers that differ by their cities and wars
SoldierNations ==
    {WithMilitary(WithCities(Nation1, cl), [NoUnits EXCEPT !.soldiers = 1500], w) :
        cl \in CityLists, w \in Wars}

\* 1000.50 infrastructure with one nuclear, three coal and three oil plants,
\* which could power 2000 and 1500 infrastructure
CityE ==
    [EmptyCity EXCEPT !.date = 635, !.infrastructure = 100050, !.land = 2000,
                      !.nuclear_power = 1, !.coal_power = 3, !.oil_power = 3,
                      !.uranium_mine = 1, !.coal_mine = 2, !.oil_well = 2]

\* 500.00 infrastructure on no land, founding date in the future
CityF ==
    [EmptyCity EXCEPT !.date = 1001, !.infrastructure = 50000, !.land = 0,
                      !.farm = 3, !.coal_power = 1, !.bank = 1]

PowerNations == {WithCities(Nation1, <<city>>) : city \in {CityE, CityF}}

\* the continents of the game, and the months of game_info["game_date"]
Continents == {"na", "sa", "as", "an", "eu", "af", "au"}

Months == 1..12

\* a farming nation of every continent in every month, without radiation
SeasonWorlds ==
    {World(WithCities([Nation1 EXCEPT !.continent = c], <<CityA>>),
           [JanuaryGame EXCEPT !.game_date_month = mo]) :
        c \in Continents, mo \in Months}

\* nations with one commercial city that differ by their commerce projects
CommerceNations ==
    {[WithCities(Nation1, <<CityD>>) EXCEPT
         !.international_trade_center = itc,
         !.telecommunications_satellite = ts,
         !.specialized_police_training_program = sptp] :
        itc \in BOOLEAN, ts \in BOOLEAN, sptp \in BOOLEAN}

\* a nation of alliance 7 whose color may earn the bonus
ColorNation(color, alliance_id) ==
    [WithCities(Nation1, <<CityC>>) EXCEPT
        !.color = color, !.alliance_id = alliance_id]

FetchKinds == {"ok", "empty", "status", "exception"}

NationAnswers(n) ==
    {OkNation(n), Failure("empty"), Failure("status"), Failure("exception")}

GameAnswers ==
    {OkGame(JulyGame), Failure("empty"), Failure("status"), Failure("exception")}

ColorAnswers == {OkColors, Failure("status"), Failure("exception")}

AllianceColorAnswers ==
    {[kind |-> "ok", color |-> "green"], [kind |-> "ok", color |-> "blue"],
     Failure("empty"), Failure("exception")}

\* worlds in which fetches fail
FailingWorlds ==
    {[World(n, JulyGame) EXCEPT
         !.calls = [id \in {1} |-> [nation |-> na, game |-> ga]],
         !.colors = ca, !.alliance_color = aa] :
        n \in {ColorNation("green", 7)},
        na \in NationAnswers(ColorNation("green", 7)),
        ga \in GameAnswers, ca \in ColorAnswers, aa \in AllianceColorAnswers}

ColorWorlds ==
    {[World(ColorNation(c, a), JanuaryGame) EXCEPT
         !.colors = ca, !.alliance_color = aa] :
        c \in {"green", "beige", "gray", "blue"}, a \in {0, 7},
        ca \in {OkColors, Failure("status")}, aa \in AllianceColorAnswers}

\* the states of the cache file at the start of a run (today's clock is 100000)
CacheFiles ==
    {CacheAbsent,
     [kind |-> "not_json"],
     [kind |-> "list"],
     CacheObject("text", 0, "table", DEFAULT_PRICES),
     CacheObject("missing", 0, "table", PartialPrices),
     CacheObject("number", 99000, "table", PartialPrices),
     CacheObject("number", 99000, "missing", DEFAULT_PRICES),
     CacheObject("number", 99000, "null", DEFAULT_PRICES),
     CacheObject("number", 92800, "table", PartialPrices),
     CacheObject("number", 90000, "table", PartialPrices)}

TradeAnswers ==
    {OkTrade, [kind |-> "ok", trade_data |-> << >>], Failure("exception"),
     Failure("status"), Failure("no_data")}

PriceWorlds ==
    {[World(WithCities([Nation1 EXCEPT !.color = "beige"], <<CityA, CityC>>),
            JulyGame) EXCEPT
         !.trade = t, !.api_key = k] :
        t \in TradeAnswers, k \in BOOLEAN}

\* the days on which calculate_nation_revenue is run: datetime.now() of two
\* consecutive days
Days == {1000, 1001}

InitEnv ==
    /\ today = 1000
    /\ now = 100000

InitPrices ==
    /\ prices_result = None
    /\ price_calls = 0

InitAllianceIdle ==
    /\ a_pc = "idle"
    /\ alliance_data = None
    /\ a_game_info = None
    /\ member_nations = << >>
    /\ member_index = 0
    /\ alliance_production = ZeroProduction
    /\ alliance_income = [gross_income |-> 0, color_bonus |-> 0,
                          gross_total |-> 0, military_upkeep |-> 0,
                          improvement_upkeep |-> 0, gross_upkeep |-> 0,
                          net_income |-> 0, monetary_net_income |-> 0]
    /\ alliance_monetary_resources =
           [r \in Resources |-> [amount |-> 0, value |-> 0]]
    /\ alliance_total_monetary_value = 0
    /\ total_cities = 0
    /\ processed_nations = 0
    /\ failed_nations = 0
    /\ member_results = << >>
    /\ a_result = None
    /\ calls = << >>
    /\ returned = << >>
    /\ a_events = << >>

\* a call of calculate_nation_revenue(1) about to start
InitNationCall ==
    /\ pc = "fetch_nation_data"
    /\ nation_id = 1
    /\ nation = None
    /\ game_info = None
    /\ color_bonuses = << >>
    /\ market_prices = None
    /\ alliance_color = "None"
    /\ production = ZeroProduction
    /\ income = ZeroIncome
    /\ city_index = 0
    /\ population = 0
    /\ result = None
    /\ events = << >>

\* calculate_nation_revenue(1), for every world and cache file above
InitNation ==
    /\ DefaultLimiter
    /\ now = 100000
    /\ InitPrices
    /\ InitAllianceIdle
    /\ InitNationCall
    /\ \/ /\ world \in {World(n, g) : n \in CityNations,
                                      g \in {JanuaryGame, JulyGame}}
          /\ cache_file = CacheAbsent
          /\ today \in Days
       \/ /\ world \in {World(n, JanuaryGame) :
                             n \in MilitaryNations \cup SoldierNations
                                   \cup CommerceNations \cup PowerNations}
          /\ cache_file = CacheAbsent
          /\ today = 1000
       \/ /\ world \in FailingWorlds \cup ColorWorlds \cup SeasonWorlds
          /\ cache_file = CacheAbsent
          /\ today = 1000
       \/ /\ world \in PriceWorlds
          /\ cache_file \in CacheFiles
          /\ today = 1000

SpecNation == InitNation /\ [][NationNext]_vars

\* ------------------------------------------ calculate_alliance_revenue

\* a faulty member_nations: only the nations whose alliance_position is "MEMBER"
RECURSIVE PlainMembers(_)
PlainMembers(nations) ==
    IF nations = << >> THEN << >>
    ELSE LET rest == PlainMembers(Tail(nations))
         IN IF Head(nations).alliance_position = "MEMBER"
            THEN <<Head(nations)>> \o rest
            ELSE rest

\* member_nations: the nations whose alliance_position is not "APPLICANT"
RECURSIVE MemberNations(_)
MemberNations(nations) ==
    IF nations = << >> THEN << >>
    ELSE LET rest == MemberNations(Tail(nations))
         IN IF Head(nations).alliance_position # "APPLICANT"
            THEN <<Head(nations)>> \o rest
            ELSE rest

\* a faulty count: a call that returned {"error": ...} is not counted
CountErrorSkipped(failed) == failed

\* failed_nations += 1, for a call that returned {"error": ...}
CountError(failed) == failed + 1

\* failed_nations += 1, in the except clause of the loop
CountException(failed) == failed + 1

\* processed_nations += 1
CountProcessed(processed) == processed + 1

\* a faulty accumulation: alliance_income["monetary_net_income"] is fed from
\* the member's net_income
AccumulateNetIncomeTwice(sums, nation_revenue) ==
    [production |->
         [r \in Resources |-> sums.production[r] + nation_revenue.production[r]],
     monetary_resources |->
         [r \in Resources |->
             [amount |-> sums.monetary_resources[r].amount
                         + nation_revenue.monetary_resources[r].amount,
              value |-> sums.monetary_resources[r].value
                        + nation_revenue.monetary_resources[r].value]],
     total_monetary_value |->
         sums.total_monetary_value + nation_revenue.total_monetary_value,
     income |->
         [sums.income EXCEPT
             !.gross_income = @ + nation_revenue.income.gross_income,
             !.color_bonus = @ + nation_revenue.income.color_bonus,
             !.gross_total = @ + nation_revenue.income.gross_total,
             !.military_upkeep = @ + nation_revenue.income.military_upkeep,
             !.improvement_upkeep = @ + nation_revenue.income.improvement_upkeep,
             !.gross_upkeep = @ + nation_revenue.income.gross_upkeep,
             !.net_income = @ + nation_revenue.income.net_income,
             !.monetary_net_income = @ + nation_revenue.income.net_income],
     total_cities |-> sums.total_cities + nation_revenue.num_cities]

\* the additions of one pass to the alliance sums; sums is the record of
\* alliance_production, alliance_monetary_resources,
\* alliance_total_monetary_value, alliance_income and total_cities
Accumulate(sums, nation_revenue) ==
    [production |->
         [r \in Resources |-> sums.production[r] + nation_revenue.production[r]],
     monetary_resources |->
         [r \in Resources |->
             [amount |-> sums.monetary_resources[r].amount
                         + nation_revenue.monetary_resources[r].amount,
              value |-> sums.monetary_resources[r].value
                        + nation_revenue.monetary_resources[r].value]],
     total_monetary_value |->
         sums.total_monetary_value + nation_revenue.total_monetary_value,
     income |->
         [gross_income |-> sums.income.gross_income
                           + nation_revenue.income.gross_income,
          color_bonus |-> sums.income.color_bonus
                          + nation_revenue.income.color_bonus,
          gross_total |-> sums.income.gross_total
                          + nation_revenue.income.gross_total,
          military_upkeep |-> sums.income.military_upkeep
                              + nation_revenue.income.military_upkeep,
          improvement_upkeep |-> sums.income.improvement_upkeep
                                 + nation_revenue.income.improvement_upkeep,
          gross_upkeep |-> sums.income.gross_upkeep
                           + nation_revenue.income.gross_upkeep,
          net_income |-> sums.income.net_income
                         + nation_revenue.income.net_income,
          monetary_net_income |-> sums.income.monetary_net_income
                                  + nation_revenue.income.monetary_net_income],
     total_cities |-> sums.total_cities + nation_revenue.num_cities]

\* the entry appended to member_results
MemberResult(id, nation_revenue) ==
    [id |-> id,
     cities |-> nation_revenue.num_cities,
     net_income |-> nation_revenue.income.net_income,
     total_income |-> nation_revenue.income.monetary_net_income]

\* entry put into a list sorted by decreasing total_income, after its equals
RECURSIVE InsertSorted(_, _)
InsertSorted(sorted, entry) ==
    IF sorted = << >> THEN <<entry>>
    ELSE IF Head(sorted).total_income >= entry.total_income
         THEN <<Head(sorted)>> \o InsertSorted(Tail(sorted), entry)
         ELSE <<entry>> \o sorted

\* a faulty sort: member_results is left in the order of the calls
SortResultsSkipped(results) == results

\* member_results.sort(key=total_income, reverse=True), a stable sort
RECURSIVE SortResults(_)
SortResults(results) ==
    IF results = << >> THEN << >>
    ELSE InsertSorted(SortResults(SubSeq(results, 1, Len(results) - 1)),
                      results[Len(results)])

\* the alliance call ends by raising
AllianceRaise(error) ==
    /\ a_pc' = "done"
    /\ a_result' = [kind |-> "raised", error |-> error]

\* the alliance call ends by returning {"error": message}
AllianceError(message) ==
    /\ a_pc' = "done"
    /\ a_result' = [kind |-> "error", error |-> message]

\* alliance_data = await fetch_alliance_data(alliance_id);
\* if not alliance_data: return error
AllianceFetchData ==
    /\ a_pc = "fetch_alliance_data"
    /\ LET resp == world.alliance
       IN IF resp.kind = "exception"
          THEN AllianceRaise("ClientError") /\ UNCHANGED alliance_data
          ELSE IF resp.kind = "ok"
               THEN /\ alliance_data' = resp.alliance
                    /\ a_pc' = "fetch_game_info"
                    /\ UNCHANGED a_result
               ELSE AllianceError("Alliance non trouvee") /\ UNCHANGED alliance_data
    /\ a_events' = Append(a_events, "fetch_alliance_data")
    /\ UNCHANGED <<a_game_info, member_nations, member_index,
                   alliance_production, alliance_income,
                   alliance_monetary_resources, alliance_total_monetary_value,
                   total_cities, processed_nations, failed_nations,
                   member_results, calls, returned>>
    /\ UNCHANGED <<envVars, limiterVars, bankVars, priceVars, nationVars>>

\* game_info = await fetch_game_info()
AllianceFetchGameInfo ==
    /\ a_pc = "fetch_game_info"
    /\ LET resp == world.a_game
       IN IF resp.kind = "exception"
          THEN AllianceRaise("ClientError") /\ UNCHANGED a_game_info
          ELSE /\ a_game_info' = (IF resp.kind = "ok" THEN resp.game_info ELSE None)
               /\ a_pc' = "fetch_color_data"
               /\ UNCHANGED a_result
    /\ a_events' = Append(a_events, "fetch_game_info")
    /\ UNCHANGED <<alliance_data, member_nations, member_index,
                   alliance_production, alliance_income,
                   alliance_monetary_resources, alliance_total_monetary_value,
                   total_cities, processed_nations, failed_nations,
                   member_results, calls, returned>>
    /\ UNCHANGED <<envVars, limiterVars, bankVars, priceVars, nationVars>>

\* color_bonuses = await fetch_color_data()
AllianceFetchColorData ==
    /\ a_pc = "fetch_color_data"
    /\ IF world.colors.kind = "exception"
       THEN AllianceRaise("ClientError")
       ELSE a_pc' = "get_pnw_market_prices" /\ UNCHANGED a_result
    /\ a_events' = Append(a_events, "fetch_color_data")
    /\ UNCHANGED <<alliance_data, a_game_info, member_nations, member_index,
                   alliance_production, alliance_income,
                   alliance_monetary_resources, alliance_total_monetary_value,
                   total_cities, processed_nations, failed_nations,
                   member_results, calls, returned>>
    /\ UNCHANGED <<envVars, limiterVars, bankVars, priceVars, nationVars>>

\* market_prices = await get_pnw_market_prices(); if not game_info: return
\* error; then the member filter and the zeroed sums
AllianceGetMarketPrices ==
    /\ a_pc = "get_pnw_market_prices"
    /\ LET got == GetPnwMarketPrices(cache_file, world.api_key, now, world.trade)
       IN /\ cache_file' = got.cache_file
          /\ IF got.result.kind = "raised"
             THEN AllianceRaise(got.result.error) /\ UNCHANGED member_nations
             ELSE IF a_game_info = None
                  THEN /\ AllianceError("Impossible de recuperer les informations du jeu")
                       /\ UNCHANGED member_nations
                  ELSE /\ member_nations' = MemberNations(alliance_data.nations)
                       /\ a_pc' = "loop"
                       /\ UNCHANGED a_result
    /\ a_events' = Append(a_events, "get_pnw_market_prices")
    /\ UNCHANGED <<alliance_data, a_game_info, member_index,
                   alliance_production, alliance_income,
                   alliance_monetary_resources, alliance_total_monetary_value,
                   total_cities, processed_nations, failed_nations,
                   member_results, calls, returned>>
    /\ UNCHANGED <<world, today, now, limiterVars, bankVars, priceVars, nationVars>>

\* the next pass of: for nation in member_nations, up to
\* await calculate_nation_revenue(nation_id)
AllianceCallMember ==
    /\ a_pc = "loop"
    /\ member_index < Len(member_nations)
    /\ EnterNationRevenue(member_nations[member_index + 1].id)
    /\ calls' = Append(calls, member_nations[member_index + 1].id)
    /\ a_events' = Append(a_events, "calculate_nation_revenue")
    /\ a_pc' = "await_nation"
    /\ UNCHANGED <<alliance_data, a_game_info, member_nations, member_index,
                   alliance_production, alliance_income,
                   alliance_monetary_resources, alliance_total_monetary_value,
                   total_cities, processed_nations, failed_nations,
                   member_results, a_result, returned>>
    /\ UNCHANGED <<envVars, limiterVars, bankVars, priceVars>>

\* the rest of the pass once calculate_nation_revenue has returned or raised,
\* up to await asyncio.sleep(5) or to the next pass
AllianceMemberReturned ==
    /\ a_pc = "await_nation"
    /\ pc = "done"
    /\ returned' = Append(returned, result)
    /\ IF result.kind = "raised"
       THEN /\ failed_nations' = CountException(failed_nations)
            /\ member_index' = member_index + 1
            /\ a_pc' = "loop"
            /\ UNCHANGED <<alliance_production, alliance_income,
                           alliance_monetary_resources,
                           alliance_total_monetary_value, total_cities,
                           processed_nations, member_results>>
       ELSE IF result.kind = "error"
       THEN /\ failed_nations' = CountError(failed_nations)
            /\ member_index' = member_index + 1
            /\ a_pc' = "loop"
            /\ UNCHANGED <<alliance_production, alliance_income,
                           alliance_monetary_resources,
                           alliance_total_monetary_value, total_cities,
                           processed_nations, member_results>>
       ELSE \E sums \in {Accumulate(
                              [production |-> alliance_production,
                               monetary_resources |-> alliance_monetary_resources,
                               total_monetary_value |-> alliance_total_monetary_value,
                               income |-> alliance_income,
                               total_cities |-> total_cities],
                              result)} :
               /\ alliance_production' = sums.production
               /\ alliance_monetary_resources' = sums.monetary_resources
               /\ alliance_total_monetary_value' = sums.total_monetary_value
               /\ alliance_income' = sums.income
               /\ total_cities' = sums.total_cities
               /\ processed_nations' = CountProcessed(processed_nations)
               /\ member_results' =
                      Append(member_results,
                             MemberResult(member_nations[member_index + 1].id,
                                          result))
               /\ a_pc' = "sleep"
               /\ UNCHANGED <<failed_nations, member_index>>
    /\ UNCHANGED <<alliance_data, a_game_info, member_nations, a_result,
                   calls, a_events>>
    /\ UNCHANGED <<envVars, limiterVars, bankVars, priceVars, nationVars>>

\* await asyncio.sleep(5) returns and the pass ends
AllianceSleep ==
    /\ a_pc = "sleep"
    /\ now' = now + 5
    /\ member_index' = member_index + 1
    /\ a_events' = Append(a_events, "sleep")
    /\ a_pc' = "loop"
    /\ UNCHANGED <<alliance_data, a_game_info, member_nations,
                   alliance_production, alliance_income,
                   alliance_monetary_resources, alliance_total_monetary_value,
                   total_cities, processed_nations, failed_nations,
                   member_results, a_result, calls, returned>>
    /\ UNCHANGED <<world, today, cache_file, limiterVars, bankVars, priceVars, nationVars>>

\* after the loop: the sort and the returned report
AllianceReturn ==
    /\ a_pc = "loop"
    /\ member_index = Len(member_nations)
    /\ member_results' = SortResults(member_results)
    /\ a_result' =
           [kind |-> "report",
            member_count |-> Len(member_nations),
            processed_nations |-> processed_nations,
            failed_nations |-> failed_nations,
            total_cities |-> total_cities,
            production |-> alliance_production,
            monetary_resources |-> alliance_monetary_resources,
            total_monetary_value |-> alliance_total_monetary_value,
            income |-> alliance_income,
            member_results |-> SortResults(member_results)]
    /\ a_pc' = "done"
    /\ UNCHANGED <<alliance_data, a_game_info, member_nations, member_index,
                   alliance_production, alliance_income,
                   alliance_monetary_resources, alliance_total_monetary_value,
                   total_cities, processed_nations, failed_nations,
                   calls, returned, a_events>>
    /\ UNCHANGED <<envVars, limiterVars, bankVars, priceVars, nationVars>>

\* the steps of calculate_nation_revenue while the alliance call awaits it
AllianceNationStep ==
    /\ a_pc = "await_nation"
    /\ NationNext

\* the caller cancels the task while the loop awaits a member's
\* calculate_nation_revenue or asyncio.sleep(5): CancelledError is raised at
\* that await; it is a BaseException (Python 3.8 and later), which the
\* except Exception clause of the loop does not catch, so it leaves
\* calculate_alliance_revenue and its local sums go with the frame
AllianceCancelled ==
    /\ a_pc \in {"await_nation", "sleep"}
    /\ IF a_pc = "await_nation" /\ pc # "done"
       THEN /\ Raise("CancelledError")
            /\ UNCHANGED <<nation_id, nation, game_info, color_bonuses,
                           market_prices, alliance_color, production, income,
                           city_index, population, events>>
       ELSE UNCHANGED nationVars
    /\ AllianceRaise("CancelledError")
    /\ a_events' = Append(a_events, "cancel")
    /\ UNCHANGED <<alliance_data, a_game_info, member_nations, member_index,
                   alliance_production, alliance_income,
                   alliance_monetary_resources, alliance_total_monetary_value,
                   total_cities, processed_nations, failed_nations,
                   member_results, calls, returned>>
    /\ UNCHANGED <<envVars, limiterVars, bankVars, priceVars>>

AllianceNext ==
    \/ AllianceFetchData
    \/ AllianceFetchGameInfo
    \/ AllianceFetchColorData
    \/ AllianceGetMarketPrices
    \/ AllianceCallMember
    \/ AllianceNationStep
    \/ AllianceMemberReturned
    \/ AllianceSleep
    \/ AllianceReturn

\* ------------------------------------------------- the alliance inputs

MaxMembers == 3

\* the nation the upstream holds under each id
MemberNation(id) ==
    LET cities == IF id % 3 = 1 THEN <<CityC>>
                  ELSE IF id % 3 = 2 THEN <<CityA, CityC>>
                  ELSE <<CityA>>
        units == [NoUnits EXCEPT !.soldiers = 100 * id, !.spies = id]
    IN [WithMilitary(WithCities(EmptyNation, cities), units, <<id % 2, 0>>)
           EXCEPT !.id = id, !.alliance_id = 7,
                  !.color = IF id % 2 = 0 THEN "beige" ELSE "green"]

\* what a roster entry is and how the upstream answers for it
Profiles ==
    {[alliance_position |-> "APPLICANT", answer |-> "ok"],
     [alliance_position |-> "MEMBER", answer |-> "ok"],
     [alliance_position |-> "MEMBER", answer |-> "nation_empty"],
     [alliance_position |-> "LEADER", answer |-> "game_status"],
     [alliance_position |-> "MEMBER", answer |-> "exception"]}

CallAnswers(id, answer) ==
    [nation |-> CASE answer = "nation_empty" -> Failure("empty")
                  [] answer = "exception" -> Failure("exception")
                  [] OTHER -> OkNation(MemberNation(id)),
     game |-> IF answer = "game_status" THEN Failure("status")
              ELSE OkGame(JanuaryGame)]

Rosters == UNION {[1..n -> Profiles] : n \in 0..MaxMembers}

Alliance(roster) ==
    [id |-> 7,
     nations |-> [i \in 1..Len(roster) |->
                     [id |-> i,
                      alliance_position |-> roster[i].alliance_position]]]

AllianceWorld(roster) ==
    [calls |-> [i \in 1..Len(roster) |-> CallAnswers(i, roster[i].answer)],
     colors |-> OkColors,
     trade |-> OkTrade,
     alliance_color |-> [kind |-> "ok", color |-> "green"],
     api_key |-> TRUE,
     alliance |-> [kind |-> "ok", alliance |-> Alliance(roster)],
     a_game |-> OkGame(JanuaryGame)]

\* a roster of two members that answer
Roster2 ==
    <<[alliance_position |-> "MEMBER", answer |-> "ok"],
      [alliance_position |-> "MEMBER", answer |-> "ok"]>>

AllianceAnswers ==
    {[kind |-> "ok", alliance |-> Alliance(Roster2)],
     Failure("empty"), Failure("status"), Failure("exception")}

\* worlds in which the fetches of the alliance call itself fail
FailingAllianceWorlds ==
    {[AllianceWorld(Roster2) EXCEPT !.alliance = al, !.a_game = ga, !.colors = ca] :
        al \in AllianceAnswers, ga \in GameAnswers, ca \in ColorAnswers}

\* calculate_alliance_revenue(7) about to start
InitAlliance ==
    /\ DefaultLimiter
    /\ InitEnv
    /\ InitPrices
    /\ NationIdle
    /\ a_pc = "fetch_alliance_data"
    /\ alliance_data = None
    /\ a_game_info = None
    /\ member_nations = << >>
    /\ member_index = 0
    /\ alliance_production = ZeroProduction
    /\ alliance_income = [gross_income |-> 0, color_bonus |-> 0,
                          gross_total |-> 0, military_upkeep |-> 0,
                          improvement_upkeep |-> 0, gross_upkeep |-> 0,
                          net_income |-> 0, monetary_net_income |-> 0]
    /\ alliance_monetary_resources =
           [r \in Resources |-> [amount |-> 0, value |-> 0]]
    /\ alliance_total_monetary_value = 0
    /\ total_cities = 0
    /\ processed_nations = 0
    /\ failed_nations = 0
    /\ member_results = << >>
    /\ a_result = None
    /\ calls = << >>
    /\ returned = << >>
    /\ a_events = << >>
    /\ \/ /\ world \in {AllianceWorld(r) : r \in Rosters}
          /\ cache_file \in {CacheAbsent,
                             CacheObject("number", 99000, "table", PartialPrices)}
       \/ /\ world \in FailingAllianceWorlds
          /\ cache_file \in {CacheAbsent, [kind |-> "list"]}

\* the event loop resumes the call whenever the fetch or the sleep it awaits
\* has completed
SpecAlliance ==
    InitAlliance /\ [][AllianceNext]_vars /\ WF_vars(AllianceNext)

\* the alliance call with a caller that may cancel it
AllianceCancelNext == AllianceNext \/ AllianceCancelled

SpecAllianceCancel == InitAlliance /\ [][AllianceCancelNext]_vars

\* ------------------------------------- get_pnw_market_prices on its own

MaxPriceCalls == 3

MaxHours == 3

\* one call of get_pnw_market_prices, with the answer the upstream gives it
CallMarketPrices ==
    /\ price_calls < MaxPriceCalls
    /\ \E response \in TradeAnswers :
          LET got == GetPnwMarketPrices(cache_file, world.api_key, now, response)
          IN /\ prices_result' = got.result
             /\ cache_file' = got.cache_file
    /\ price_calls' = price_calls + 1
    /\ UNCHANGED <<world, today, now, nationVars, allianceVars,
                   limiterVars, bankVars>>

\* an hour passes between two calls
HourPasses ==
    /\ now < 100000 + 3600 * MaxHours
    /\ now' = now + 3600
    /\ UNCHANGED <<world, today, cache_file, limiterVars, bankVars, priceVars,
                   nationVars, allianceVars>>

PricesNext == CallMarketPrices \/ HourPasses

InitMarketPrices ==
    /\ DefaultLimiter
    /\ InitEnv
    /\ InitPrices
    /\ InitAllianceIdle
    /\ NationIdle
    /\ world \in {[World(Nation1, JanuaryGame) EXCEPT !.api_key = k] :
                     k \in BOOLEAN}
    /\ cache_file \in CacheFiles

SpecPrices == InitMarketPrices /\ [][PricesNext]_vars

\* ------------------------------------- PnwApiLimiter on its own

InitLimiter ==
    /\ InitEnv
    /\ InitPrices
    /\ InitAllianceIdle
    /\ NationIdle
    /\ world = World(Nation1, JanuaryGame)
    /\ cache_file = CacheAbsent
    /\ requests_per_minute \in Limits
    /\ LimiterIdle
    /\ BankIdle

SpecLimiter == InitLimiter /\ [][LimiterNext]_vars

\* ------------------------------- bank_history.json and its handlers

\* resources['total_value'] of a TARS response, in millions of dollars
TotalValues == {700, 900}

\* what extract_resources_from_tars_response makes of a TARS response: a dict
\* with a total_value, or one where no total value was found
TarsResponses ==
    {[total_value |-> value] : value \in TotalValues} \cup {[money |-> 5]}

\* message.created_at of the $get_bank commands a scan finds in the channel
ScanTimestamps == {99900, 100200}

\* how many $get_bank commands the channel history of one scan holds
MaxCommands == 1

\* the seconds that pass between two steps of the handlers
BankSteps == {299, 300}

\* how long the handlers are followed, in seconds
MaxBankSeconds == 300

AllianceIds == {7}

\* load_bank_history: the content of the file
LoadBankHistory(file) == file

\* save_bank_history: json.dump of the whole of history_data over the file
SaveBankHistory(history_data) == history_data

AbsDiff(a, b) == IF a >= b THEN a - b ELSE b - a

\* is_duplicate_entry with a window of one minute in place of five
IsDuplicateEntryWithinOneMinute(history_data, timestamp, total_value) ==
    \E i \in 1..Len(history_data.bank_records) :
        LET record == history_data.bank_records[i]
        IN /\ AbsDiff(record.timestamp, timestamp) < 60
           /\ "total_value" \in DOMAIN record.resources
           /\ record.resources.total_value = total_value

\* is_duplicate_entry: some record lies less than 300 seconds away and its
\* resources have the same total_value
IsDuplicateEntry(history_data, timestamp, total_value) ==
    \E i \in 1..Len(history_data.bank_records) :
        LET record == history_data.bank_records[i]
        IN /\ AbsDiff(record.timestamp, timestamp) < 300
           /\ "total_value" \in DOMAIN record.resources
           /\ record.resources.total_value = total_value

\* the bank_record on_message and scan_message_history build
BankRecord(timestamp, requested_by, resources) ==
    [timestamp |-> timestamp, requested_by |-> requested_by,
     resources |-> resources]

\* list.sort(key=lambda x: x["timestamp"]): ascending, and stable
RECURSIVE InsertByTimestamp(_, _)
InsertByTimestamp(sorted, record) ==
    IF sorted = << >> THEN <<record>>
    ELSE IF Head(sorted).timestamp <= record.timestamp
         THEN <<Head(sorted)>> \o InsertByTimestamp(Tail(sorted), record)
         ELSE <<record>> \o sorted

RECURSIVE SortByTimestamp(_)
SortByTimestamp(records) ==
    IF records = << >> THEN << >>
    ELSE InsertByTimestamp(SortByTimestamp(SubSeq(records, 1, Len(records) - 1)),
                           records[Len(records)])

\* on_message: a user wrote "$get_bank"; the handler waits for TARS
GetBankRequested(handler) ==
    /\ m_pc[handler] = "idle"
    /\ captures < MaxCaptures
    /\ captures' = captures + 1
    /\ m_pc' = [m_pc EXCEPT ![handler] = "wait_for"]
    /\ UNCHANGED <<bank_history, m_capture, h_pc, h_history, hourly_runs,
                   s_pc, s_history, scans, saved>>
    /\ UNCHANGED <<envVars, priceVars, nationVars, allianceVars, limiterVars>>

\* on_message: TARS answers in a channel; bot.wait_for returns the answer to
\* every handler waiting there, and each takes its timestamp
TarsResponds ==
    /\ \E resources \in TarsResponses :
       \E woken \in SUBSET Handlers :
          /\ woken # {}
          /\ \A handler \in woken : m_pc[handler] = "wait_for"
          /\ m_pc' = [handler \in Handlers |->
                        IF handler \in woken THEN "extract" ELSE m_pc[handler]]
          /\ m_capture' = [handler \in Handlers |->
                             IF handler \in woken
                             THEN [timestamp |-> now, resources |-> resources]
                             ELSE m_capture[handler]]
    /\ UNCHANGED <<bank_history, captures, h_pc, h_history, hourly_runs,
                   s_pc, s_history, scans, saved>>
    /\ UNCHANGED <<envVars, priceVars, nationVars, allianceVars, limiterVars>>

\* on_message: asyncio.TimeoutError, TARS did not answer within 5 seconds
WaitForTimeout(handler) ==
    /\ m_pc[handler] = "wait_for"
    /\ m_pc' = [m_pc EXCEPT ![handler] = "idle"]
    /\ UNCHANGED <<bank_history, m_capture, captures, h_pc, h_history,
                   hourly_runs, s_pc, s_history, scans, saved>>
    /\ UNCHANGED <<envVars, priceVars, nationVars, allianceVars, limiterVars>>

\* on_message after the extraction: load, is_duplicate_entry, append and
\* save, with no await between them
RecordCapture(handler) ==
    /\ m_pc[handler] = "extract"
    /\ LET timestamp == m_capture[handler].timestamp
           resources == m_capture[handler].resources
           history_data == LoadBankHistory(bank_history)
           bank_record == BankRecord(timestamp, handler, resources)
       IN IF /\ "total_value" \in DOMAIN resources
             /\ ~IsDuplicateEntry(history_data, timestamp,
                                  resources.total_value)
          THEN /\ bank_history' =
                    SaveBankHistory(
                        [history_data EXCEPT
                            !.bank_records = Append(@, bank_record)])
               /\ saved' = saved \cup {bank_record}
          ELSE UNCHANGED <<bank_history, saved>>
    /\ m_pc' = [m_pc EXCEPT ![handler] = "idle"]
    /\ m_capture' = [m_capture EXCEPT ![handler] = None]
    /\ UNCHANGED <<captures, h_pc, h_history, hourly_runs, s_pc, s_history,
                   scans>>
    /\ UNCHANGED <<envVars, priceVars, nationVars, allianceVars, limiterVars>>

\* set_alliance_id: load, set and save, with no await between them
SetAllianceId(alliance_id) ==
    /\ bank_history.alliance_id # alliance_id
    /\ bank_history' =
          SaveBankHistory(
              [LoadBankHistory(bank_history) EXCEPT !.alliance_id = alliance_id])
    /\ UNCHANGED <<m_pc, m_capture, captures, h_pc, h_history, hourly_runs,
                   s_pc, s_history, scans, saved>>
    /\ UNCHANGED <<envVars, priceVars, nationVars, allianceVars, limiterVars>>

\* hourly_member_resources_collection up to its await: it loads the history,
\* returns when no alliance id is set, and else takes its timestamp and
\* starts fetch_and_aggregate_member_resources
HourlyCollectionStarts ==
    /\ h_pc = "idle"
    /\ hourly_runs < MaxHourlyRuns
    /\ hourly_runs' = hourly_runs + 1
    /\ LET history_data == LoadBankHistory(bank_history)
       IN IF history_data.alliance_id = 0
          THEN UNCHANGED <<h_pc, h_history>>
          ELSE /\ h_pc' = "fetch"
               /\ h_history' =
                     [history_data |-> history_data, timestamp |-> now]
    /\ UNCHANGED <<bank_history, m_pc, m_capture, captures, s_pc, s_history,
                   scans, saved>>
    /\ UNCHANGED <<envVars, priceVars, nationVars, allianceVars, limiterVars>>

\* hourly_member_resources_collection after its await: with data it appends
\* a record to the history_data it loaded before the await and saves that
HourlyCollectionFetched ==
    /\ h_pc = "fetch"
    /\ \E aggregated_data \in
              {None} \cup {[total_value |-> value] : value \in TotalValues} :
          IF aggregated_data # None
          THEN bank_history' =
                  SaveBankHistory(
                      [h_history.history_data EXCEPT
                          !.member_resources_records =
                              Append(@, [timestamp |-> h_history.timestamp,
                                         total_value |->
                                             aggregated_data.total_value])])
          ELSE UNCHANGED bank_history
    /\ h_pc' = "idle"
    /\ h_history' = None
    /\ UNCHANGED <<m_pc, m_capture, captures, hourly_runs, s_pc, s_history,
                   scans, saved>>
    /\ UNCHANGED <<envVars, priceVars, nationVars, allianceVars, limiterVars>>

\* scan_message_history up to the scan of the channel: it loads the history
ScanStarts ==
    /\ s_pc = "idle"
    /\ scans < MaxScans
    /\ scans' = scans + 1
    /\ s_pc' = "scanning"
    /\ s_history' = [history_data |-> LoadBankHistory(bank_history),
                     commands_found |-> 0]
    /\ UNCHANGED <<bank_history, m_pc, m_capture, captures, h_pc, h_history,
                   hourly_runs, saved>>
    /\ UNCHANGED <<envVars, priceVars, nationVars, allianceVars, limiterVars>>

\* scan_message_history, one $get_bank command of the channel history with
\* its TARS response: the record goes to the local history_data unless
\* is_duplicate_entry finds it there
ScanParsesResponse ==
    /\ s_pc = "scanning"
    /\ s_history.commands_found < MaxCommands
    /\ \E timestamp \in ScanTimestamps, resources \in TarsResponses :
          LET history_data == s_history.history_data
              bank_record == BankRecord(timestamp, 0, resources)
              parsed ==
                  IF /\ "total_value" \in DOMAIN resources
                     /\ ~IsDuplicateEntry(history_data, timestamp,
                                          resources.total_value)
                  THEN [history_data EXCEPT
                           !.bank_records = Append(@, bank_record)]
                  ELSE history_data
          IN s_history' = [history_data |-> parsed,
                           commands_found |-> s_history.commands_found + 1]
    /\ UNCHANGED <<bank_history, m_pc, m_capture, captures, h_pc, h_history,
                   hourly_runs, s_pc, scans, saved>>
    /\ UNCHANGED <<envVars, priceVars, nationVars, allianceVars, limiterVars>>

\* scan_message_history after the scan: it sorts the records of the
\* history_data it loaded before the scan and saves that
ScanSaves ==
    /\ s_pc = "scanning"
    /\ bank_history' =
          SaveBankHistory(
              [s_history.history_data EXCEPT
                  !.bank_records = SortByTimestamp(@)])
    /\ s_pc' = "idle"
    /\ s_history' = None
    /\ UNCHANGED <<m_pc, m_capture, captures, h_pc, h_history, hourly_runs,
                   scans, saved>>
    /\ UNCHANGED <<envVars, priceVars, nationVars, allianceVars, limiterVars>>

\* time passes between two steps of the handlers
BankTimePasses ==
    /\ \E step \in BankSteps :
          /\ now + step <= 100000 + MaxBankSeconds
          /\ now' = now + step
    /\ UNCHANGED <<world, today, cache_file>>
    /\ UNCHANGED <<priceVars, nationVars, allianceVars, limiterVars, bankVars>>

BankNext ==
    \/ \E handler \in Handlers : GetBankRequested(handler)
    \/ TarsResponds
    \/ \E handler \in Handlers : WaitForTimeout(handler)
    \/ \E handler \in Handlers : RecordCapture(handler)
    \/ \E alliance_id \in AllianceIds : SetAllianceId(alliance_id)
    \/ HourlyCollectionStarts
    \/ HourlyCollectionFetched
    \/ ScanStarts
    \/ ScanParsesResponse
    \/ ScanSaves
    \/ BankTimePasses

InitBank ==
    /\ InitEnv
    /\ InitPrices
    /\ InitAllianceIdle
    /\ NationIdle
    /\ world = World(Nation1, JanuaryGame)
    /\ cache_file = CacheAbsent
    /\ DefaultLimiter

SpecBank == InitBank /\ [][BankNext]_vars

\* the on_message handlers on their own
CapturesNext ==
    \/ \E handler \in Handlers : GetBankRequested(handler)
    \/ TarsResponds
    \/ \E handler \in Handlers : WaitForTimeout(handler)
    \/ \E handler \in Handlers : RecordCapture(handler)
    \/ BankTimePasses

SpecCaptures == InitBank /\ [][CapturesNext]_vars

\* ================================================================ claims

RECURSIVE SumSeq(_)
SumSeq(xs) == IF xs = << >> THEN 0 ELSE Head(xs) + SumSeq(Tail(xs))

IsReport(x) == x.kind = "report"

\* the reports among the results the per-member calls gave, in call order
Reports == SelectSeq(returned, IsReport)

\* the ids of the roster entries that are not applicants, in roster order
RECURSIVE NonApplicantIds(_)
NonApplicantIds(nations) ==
    IF nations = << >> THEN << >>
    ELSE (IF Head(nations).alliance_position = "APPLICANT"
          THEN << >> ELSE <<Head(nations).id>>)
         \o NonApplicantIds(Tail(nations))

IsPrefix(xs, ys) == Len(xs) <= Len(ys) /\ SubSeq(ys, 1, Len(xs)) = xs

AllianceReported == a_pc = "done" /\ a_result.kind = "report"

NationReported == pc = "done" /\ result.kind = "report"

IncomeFields ==
    {"gross_income", "color_bonus", "gross_total", "military_upkeep",
     "improvement_upkeep", "gross_upkeep", "net_income", "monetary_net_income"}

\* C1: in a returned alliance report every aggregated field is the sum of that
\* field over the member calls that returned a report, which are exactly the
\* members counted in processed_nations; a member whose call returned an error
\* or raised adds nothing.
C1_AggregatesAreSums ==
    AllianceReported =>
        LET reps == Reports
            Over(F(_)) == SumSeq([i \in 1..Len(reps) |-> F(reps[i])])
        IN /\ a_result.processed_nations = Len(reps)
           /\ \A r \in Resources :
                 LET Amount(x) == x.production[r]
                     MAmount(x) == x.monetary_resources[r].amount
                     MValue(x) == x.monetary_resources[r].value
                 IN /\ a_result.production[r] = Over(Amount)
                    /\ a_result.monetary_resources[r].amount = Over(MAmount)
                    /\ a_result.monetary_resources[r].value = Over(MValue)
           /\ LET Total(x) == x.total_monetary_value
              IN a_result.total_monetary_value = Over(Total)
           /\ \A f \in IncomeFields :
                 LET Field(x) == x.income[f]
                 IN a_result.income[f] = Over(Field)
           /\ LET NumCities(x) == x.num_cities
              IN a_result.total_cities = Over(NumCities)

\* a report over two processed members and one that failed
C1_Witness ==
    /\ AllianceReported
    /\ a_result.processed_nations = 2
    /\ a_result.failed_nations = 1
    /\ a_result.production["steel"] > 0
    /\ a_result.income.color_bonus > 0

\* C2: in a returned alliance report processed_nations + failed_nations =
\* member_count, member_count is the number of non-applicant roster entries,
\* failed_nations the number of member calls that failed and processed_nations
\* the number that returned a report.
C2_CountsAddUp ==
    AllianceReported =>
        /\ a_result.processed_nations + a_result.failed_nations
               = a_result.member_count
        /\ a_result.member_count = Len(NonApplicantIds(alliance_data.nations))
        /\ a_result.processed_nations = Len(Reports)
        /\ a_result.failed_nations = Len(returned) - Len(Reports)
        /\ Len(returned) = a_result.member_count

\* a report with a member that returned an error, one that raised and one
\* that succeeded
C2_Witness ==
    /\ AllianceReported
    /\ a_result.processed_nations = 1
    /\ a_result.failed_nations = 2
    /\ \E i \in 1..Len(returned) : returned[i].kind = "error"
    /\ \E i \in 1..Len(returned) : returned[i].kind = "raised"

\* C3: calculate_nation_revenue is called once per non-applicant, in roster
\* order, never for an applicant; a member's failure does not stop the later
\* calls, and once the loop is entered the call ends by returning a report.
C3_EveryMemberAttempted ==
    /\ [](a_pc \in {"loop", "await_nation", "sleep", "done"} /\ calls # << >>
            => IsPrefix(calls, NonApplicantIds(alliance_data.nations)))
    /\ [](AllianceReported
            => /\ calls = NonApplicantIds(alliance_data.nations)
               /\ Len(returned) = Len(calls))
    /\ (a_pc = "loop" ~> AllianceReported)

\* a report after the first of two members raised, with an applicant on the
\* roster
C3_Witness ==
    /\ AllianceReported
    /\ Len(calls) = 2
    /\ Len(alliance_data.nations) = 3
    /\ returned[1].kind = "raised"
    /\ returned[2].kind = "report"

\* C4: calculate_nation_revenue ends without a report and without any city
\* pass when fetch_nation_data gives no nation or fetch_game_info gives no
\* game info: it returns the error of that fetch (or passes on the exception
\* the fetch raised).
C4_FailureNoReport ==
    LET answer == world.calls[nation_id]
        noCity == /\ city_index = 0
                  /\ production = ZeroProduction
                  /\ income = ZeroIncome
                  /\ \A i \in 1..Len(events) : events[i] # "city"
    IN /\ (pc # "idle" /\ answer.nation.kind # "ok")
           => /\ noCity
              /\ result.kind # "report"
              /\ pc = "done" /\ answer.nation.kind \in {"empty", "status"}
                    => result = [kind |-> "error", error |-> "Nation non trouvee"]
              /\ pc = "done" /\ answer.nation.kind = "exception"
                    => result.kind = "raised"
       /\ (pc # "idle" /\ answer.nation.kind = "ok" /\ answer.game.kind # "ok")
           => /\ noCity
              /\ result.kind # "report"
              /\ pc = "done" /\ answer.game.kind \in {"empty", "status"}
                    => result = [kind |-> "error",
                                 error |-> "Impossible de recuperer les informations du jeu"]
              /\ pc = "done" /\ answer.game.kind = "exception"
                    => result.kind = "raised"

\* the nation resolved, the game-info request got a status other than 200 and
\* the call returned the error
C4_Witness ==
    /\ pc = "done"
    /\ world.calls[nation_id].nation.kind = "ok"
    /\ Len(world.calls[nation_id].nation.nation.cities) > 0
    /\ world.calls[nation_id].game.kind = "status"
    /\ result.kind = "error"

\* C5 (as claimed): the alliance call reports "Alliance non trouvee" only when
\* the alliance id does not resolve, not when the membership fetch fails.
C5_NotFoundOnlyWhenUnresolved ==
    (a_pc = "done"
     /\ a_result = [kind |-> "error", error |-> "Alliance non trouvee"])
        => world.alliance.kind = "empty"

\* C6 (as claimed): every call of get_pnw_market_prices returns a price table.
C6_AlwaysAPriceTable ==
    price_calls > 0 => prices_result.kind = "table"

\* the price of a resource in a returned table; 0 when the table lacks it
PriceOrZero(table, r) == IF r \in DOMAIN table THEN table[r] ELSE 0

\* C7: every nation report satisfies gross_total = color_bonus + gross_income,
\* gross_upkeep = improvement_upkeep + military_upkeep,
\* net_income = gross_total - gross_upkeep,
\* monetary_net_income = net_income + total_monetary_value, and
\* total_monetary_value is the sum over the 11 resources of amount times
\* price, a resource without a price counting for 0.
C7_ReportIdentities ==
    NationReported =>
        LET i == result.income
            values == [k \in 1..Len(ResourceOrder) |->
                          MulDiv(result.production[ResourceOrder[k]],
                                 PriceOrZero(market_prices.prices, ResourceOrder[k]),
                                 10)]
        IN /\ i.gross_total = i.color_bonus + i.gross_income
           /\ i.gross_upkeep = i.improvement_upkeep + i.military_upkeep
           /\ i.net_income = i.gross_total - i.gross_upkeep
           /\ i.monetary_net_income = i.net_income + result.total_monetary_value
           /\ result.total_monetary_value = SumSeq(values)
           /\ Cardinality(Resources) = 11

\* a report with a color bonus, upkeep, and a produced resource the price
\* table lacks
C7_Witness ==
    /\ NationReported
    /\ result.income.color_bonus > 0
    /\ result.income.improvement_upkeep > 0
    /\ "steel" \notin DOMAIN market_prices.prices
    /\ result.production["steel"] > 0
    /\ result.total_monetary_value # 0

\* C8 (as claimed): the population a city pass computes is never negative.
C8_PopulationNonNegative == population >= 0

\* some unit other than a spy
HasUnitsBesidesSpies(n) ==
    n.soldiers + n.tanks + n.aircraft + n.ships + n.missiles + n.nukes > 0

HasUnits(n) == HasUnitsBesidesSpies(n) \/ n.spies > 0

\* the military upkeep the same nation pays with no war
PeaceUpkeep(n) ==
    LET peaceful == [n EXCEPT !.offensive_wars_count = 0,
                              !.defensive_wars_count = 0]
    IN PolicyMilitaryUpkeep(peaceful, MilitaryUpkeep(peaceful))

\* C9 (as claimed): with any unit at all, spies included, the military upkeep
\* at war is strictly greater than the peacetime upkeep of the same nation.
C9_WarUpkeepGreaterWithAnyUnit ==
    (NationReported /\ ~AtPeace(nation) /\ HasUnits(nation))
        => result.income.military_upkeep > PeaceUpkeep(nation)

\* C9 (amended): with a unit other than a spy the military upkeep at war is
\* strictly greater than the peacetime upkeep of the same nation; with spies
\* only the two are equal.
C9_WarUpkeepGreater ==
    (NationReported /\ ~AtPeace(nation))
        => IF HasUnitsBesidesSpies(nation)
           THEN result.income.military_upkeep > PeaceUpkeep(nation)
           ELSE result.income.military_upkeep = PeaceUpkeep(nation)

\* a report of a nation at war, under IMPERIALISM with both policy projects,
\* that has soldiers, aircraft, spies, a missile and a nuke
C9_Witness ==
    /\ NationReported
    /\ ~AtPeace(nation)
    /\ nation.domestic_policy = "IMPERIALISM"
    /\ nation.bureau_of_domestic_affairs /\ nation.government_support_agency
    /\ nation.soldiers > 0 /\ nation.nukes > 0 /\ nation.spies > 0

\* C10: the military upkeep is built from the peacetime coefficients exactly
\* when offensive_wars_count + defensive_wars_count = 0 and from the wartime
\* ones otherwise, plus 2400 per spy in both; food is reduced by soldiers/750
\* in peace and soldiers/500 at war, once per nation whatever the number of
\* cities.
C10_UpkeepRegimes ==
    NationReported =>
        LET n == nation
            peace == n.offensive_wars_count + n.defensive_wars_count = 0
            units == IF peace
                     THEN n.soldiers * 125 + n.tanks * 5000 + n.aircraft * 50000
                          + n.ships * 337500 + n.missiles * 2100000
                          + n.nukes * 3500000
                     ELSE n.soldiers * 188 + n.tanks * 7500 + n.aircraft * 75000
                          + n.ships * 506250 + n.missiles * 3150000
                          + n.nukes * 5250000
            upkeep == units + n.spies * 240000
            cityFood == CityLoop(n, game_info, today, Len(n.cities)).production.food
        IN /\ result.income.military_upkeep =
                  (IF n.domestic_policy = "IMPERIALISM"
                   THEN MulDiv(upkeep, 2000 - DomesticPolicyIncrease(n), 2000)
                   ELSE upkeep)
           /\ result.production.food =
                  cityFood - RDiv(n.soldiers * 1000, IF peace THEN 750 ELSE 500)

\* a report of a nation at war with soldiers and two cities
C10_Witness ==
    /\ NationReported
    /\ ~AtPeace(nation)
    /\ nation.soldiers > 0
    /\ Len(nation.cities) = 2

\* the color of the nation's alliance as the upstream gives it; "None" for a
\* nation without alliance or when the answer holds no alliance
UpstreamAllianceColor ==
    IF nation.alliance_id # 0 /\ world.alliance_color.kind = "ok"
    THEN world.alliance_color.color
    ELSE "None"

\* the color-bonus table as the upstream gives it; empty when the fetch fails
UpstreamColorTable ==
    IF world.colors.kind = "ok" THEN world.colors.colors ELSE << >>

\* C11: color_bonus of a nation report is 12 times the table entry of the
\* nation's color when that color is the alliance's color or is "beige", and 0
\* otherwise (other color, no alliance, alliance color unavailable); a color
\* the table lacks, the empty table included, gives 0.
C11_ColorBonus ==
    NationReported =>
        result.income.color_bonus =
            (IF (nation.color = UpstreamAllianceColor \/ nation.color = "beige")
                /\ nation.color \in DOMAIN UpstreamColorTable
             THEN 12 * 100 * UpstreamColorTable[nation.color]
             ELSE 0)

\* a report of a beige nation in a green alliance, paid the beige bonus
C11_Witness ==
    /\ NationReported
    /\ nation.color = "beige"
    /\ UpstreamAllianceColor = "green"
    /\ result.income.color_bonus = 6000

\* C12: domestic_policy_increase is 1 without the government support agency
\* (with or without the bureau of domestic affairs), 1.5 with the agency only
\* and 1.75 with both; under OPEN_MARKETS the summed gross income of the cities
\* is multiplied by 1 + 0.01 * increase (1.0175 with both projects), under
\* IMPERIALISM the military upkeep by 1 - 0.05 * increase, and under any other
\* policy neither is changed.
C12_DomesticPolicy ==
    NationReported =>
        LET n == nation
            increase == IF ~n.government_support_agency THEN 100
                        ELSE IF n.bureau_of_domestic_affairs THEN 175 ELSE 150
            summed == CityLoop(n, game_info, today, Len(n.cities)).income.gross_income
            upkeep == MilitaryUpkeep(n)
        IN /\ result.income.gross_income =
                  (IF n.domestic_policy = "OPEN_MARKETS"
                   THEN MulDiv(summed, 10000 + increase, 10000)
                   ELSE summed)
           /\ result.income.military_upkeep =
                  (IF n.domestic_policy = "IMPERIALISM"
                   THEN MulDiv(upkeep, 2000 - increase, 2000)
                   ELSE upkeep)

\* a report under OPEN_MARKETS with both projects: the gross income of the
\* city times 1.0175
C12_Witness ==
    /\ NationReported
    /\ nation.domestic_policy = "OPEN_MARKETS"
    /\ nation.government_support_agency /\ nation.bureau_of_domestic_affairs
    /\ income.gross_income > 0
    /\ result.income.gross_income =
           MulDiv(CityGrossIncome(nation.cities[1], nation, today), 10175, 10000)
    /\ result.income.gross_income > CityGrossIncome(nation.cities[1], nation, today)

\* the improvement counts of a city
ImprovementOrder ==
    <<"oil_refinery", "steel_mill", "aluminum_refinery", "munitions_factory",
      "uranium_mine", "oil_well", "iron_mine", "coal_mine", "bauxite_mine",
      "lead_mine", "farm", "subway", "stadium", "shopping_mall", "bank",
      "supermarket", "police_station", "hospital", "recycling_center",
      "nuclear_power", "coal_power", "oil_power", "wind_power">>

\* the city with every improvement count set to 0
Bare(city) ==
    [city EXCEPT
        !.oil_refinery = 0, !.steel_mill = 0, !.aluminum_refinery = 0,
        !.munitions_factory = 0, !.uranium_mine = 0, !.oil_well = 0,
        !.iron_mine = 0, !.coal_mine = 0, !.bauxite_mine = 0, !.lead_mine = 0,
        !.farm = 0, !.subway = 0, !.stadium = 0, !.shopping_mall = 0,
        !.bank = 0, !.supermarket = 0, !.police_station = 0, !.hospital = 0,
        !.recycling_center = 0, !.nuclear_power = 0, !.coal_power = 0,
        !.oil_power = 0, !.wind_power = 0]

\* the city with the one improvement kind k kept and every other count 0
Only(city, k) == [Bare(city) EXCEPT ![k] = city[k]]

\* the city the last pass of the loop computed
ComputedCity == nation.cities[city_index]

\* C13: production, consumption, improvement upkeep and pollution index of a
\* city are each the sum of one term per improvement kind, and the term of a
\* kind whose count is 0 is exactly 0: without any improvement the city only
\* eats (its production is minus the food of its population, its upkeep and
\* pollution are 0), every kind adds what the city with that kind alone adds,
\* 0 farms give 0 food production and 0 plants of a kind burn no fuel.
C13_ZeroCountsContributeNothing ==
    (pc \in {"cities", "done"} /\ city_index > 0) =>
        LET c == ComputedCity
            n == nation
            bare == Bare(c)
            prod(x) == CityProduction(x, n, game_info, today)
            kinds == 1..Len(ImprovementOrder)
            only(i) == Only(c, ImprovementOrder[i])
            whole == prod(c)
            none == prod(bare)
            alone == {<<i, prod(only(i))>> : i \in kinds}
            single(i) == (CHOOSE pair \in alone : pair[1] = i)[2]
        IN /\ none =
                  [ZeroProduction EXCEPT !.food = -PopulationFormula(c, today)]
           /\ ImprovementUpkeep(bare, n) = 0
           /\ PollutionIndex(bare, n) = 0
           /\ \A r \in Resources :
                 whole[r] - none[r]
                     = SumSeq([i \in kinds |-> single(i)[r] - none[r]])
           /\ ImprovementUpkeep(c, n)
                  = SumSeq([i \in kinds |-> ImprovementUpkeep(only(i), n)])
           /\ PollutionIndex(c, n)
                  = SumSeq([i \in kinds |-> PollutionIndex(only(i), n)])
           /\ \A i \in kinds :
                 c[ImprovementOrder[i]] = 0 =>
                     /\ single(i) = none
                     /\ ImprovementUpkeep(only(i), n) = 0
                     /\ PollutionIndex(only(i), n) = 0
           /\ c.farm = 0 => FoodProduction(c, n, game_info) = 0
           /\ c.nuclear_power = 0 => NuclearUranium(c) = 0
           /\ c.coal_power = 0 => CoalPowerCoal(c) = 0
           /\ c.oil_power = 0 => OilPowerOil(c) = 0

\* a pass over a city with coal plants, steel mills and farms, without oil
\* or nuclear plants, refineries or hospitals
C13_Witness ==
    /\ pc = "cities" /\ city_index > 0
    /\ ComputedCity.steel_mill > 0 /\ ComputedCity.coal_power > 0
    /\ ComputedCity.farm > 0
    /\ ComputedCity.nuclear_power = 0 /\ ComputedCity.oil_power = 0
    /\ ComputedCity.oil_refinery = 0 /\ ComputedCity.hospital = 0
    /\ production.uranium = 0

\* C14: the commerce of a city is min(supermarket * 4 + bank * 6 + mall * 8
\* + stadium * 10 + subway * 8 + additions, cap), the cap being 100 without the
\* international trade center (with or without the satellite), 115 with the
\* trade center only and 125 with both; so 0 <= commerce <= 125, and
\* commerce <= 100 without the trade center. The gross income a pass adds is
\* the one of that commerce.
C14_CommerceCapped ==
    (pc \in {"cities", "done"} /\ city_index > 0) =>
        LET c == ComputedCity
            n == nation
            additions == (IF n.international_trade_center THEN 1 ELSE 0)
                         + (IF n.specialized_police_training_program THEN 4 ELSE 0)
                         + (IF n.telecommunications_satellite THEN 2 ELSE 0)
            cap == IF ~n.international_trade_center THEN 100
                   ELSE IF n.telecommunications_satellite THEN 125 ELSE 115
            raw == c.supermarket * 4 + c.bank * 6 + c.shopping_mall * 8
                   + c.stadium * 10 + c.subway * 8 + additions
            commerce == Commerce(c, n)
        IN /\ commerce = (IF raw <= cap THEN raw ELSE cap)
           /\ commerce >= 0 /\ commerce <= 125
           /\ ~n.international_trade_center => commerce <= 100
           /\ (pc = "cities" /\ city_index = 1) =>
                 income.gross_income =
                     MulDiv(population,
                            ((IF raw <= cap THEN raw ELSE cap) + 50) * 145, 10000)

\* a pass over a city whose improvements give 116 + 2, in a nation with the
\* satellite and without the trade center: commerce 100
C14_Witness ==
    /\ pc = "cities" /\ city_index = 1
    /\ ~nation.international_trade_center
    /\ nation.telecommunications_satellite
    /\ ComputedCity.stadium = 3 /\ ComputedCity.bank = 5
    /\ Commerce(ComputedCity, nation) = 100
    /\ income.gross_income > 0

\* C15 (as claimed): what a city pass computes depends on the city, the nation
\* and the game context only: computed on any other day from the same values,
\* the population, the resource deltas and the income contributions are the
\* ones this pass produced.
C15_CityPassDeterministic ==
    (pc = "cities" /\ city_index > 0) =>
        \A day \in Days :
            LET c == ComputedCity
            IN /\ population = Population(c, nation, day)
               /\ city_index = 1 =>
                     /\ production = CityProduction(c, nation, game_info, day)
                     /\ income.gross_income = CityGrossIncome(c, nation, day)
                     /\ income.improvement_upkeep = ImprovementUpkeep(c, nation)

\* C16 (as claimed): every call of calculate_nation_revenue but the first is
\* made right after the 5-second sleep, whatever the preceding member's call
\* gave (a report, an error or an exception).
C16_SleepBetweenMembers ==
    \A i \in 1..Len(a_events) :
        (/\ a_events[i] = "calculate_nation_revenue"
         /\ \E j \in 1..(i - 1) : a_events[j] = "calculate_nation_revenue")
            => a_events[i - 1] = "sleep"

\* the positions of the member calls that returned a report
ReportedCalls == {i \in 1..Len(returned) : returned[i].kind = "report"}

\* C17: member_results of a returned alliance report is in non-increasing
\* order of total_income and holds exactly one entry per processed nation and
\* none for a failed one: its length is processed_nations, and its entries are
\* those of the member calls that returned a report, each with the nation's
\* monetary_net_income as total_income.
C17_MemberResultsSorted ==
    AllianceReported =>
        LET results == a_result.member_results
        IN /\ \A i \in 1..(Len(results) - 1) :
                 results[i].total_income >= results[i + 1].total_income
           /\ Len(results) = a_result.processed_nations
           /\ Len(results) = Cardinality(ReportedCalls)
           /\ \A i, j \in 1..Len(results) : i # j => results[i].id # results[j].id
           /\ {results[i] : i \in 1..Len(results)}
                  = {[id |-> calls[i],
                      cities |-> returned[i].num_cities,
                      net_income |-> returned[i].income.net_income,
                      total_income |-> returned[i].income.monetary_net_income] :
                         i \in ReportedCalls}

\* a report over three members, the second one failed, in which the last
\* member called comes first
C17_Witness ==
    /\ AllianceReported
    /\ Len(calls) = 3
    /\ returned[2].kind = "error"
    /\ Len(a_result.member_results) = 2
    /\ a_result.member_results[1].id = calls[3]
    /\ a_result.member_results[1].total_income
           > a_result.member_results[2].total_income

\* ---------------------------------------------------------------------
\* C18  get_pnw_market_prices returns the cached prices only when the
\* cached timestamp is less than 7200 seconds old.  Every call that returns
\* a table returns the default table, or the table it has just fetched and
\* stamped with the current time, or the prices of a cache whose timestamp
\* is less than 7200 seconds before the call; and a call that finds an older
\* cache and cannot refresh it (no API key, or a failed request) returns the
\* default table and leaves the cache as it was.
CacheAge(file, t) == t - file.timestamp

Refreshed(response) ==
    /\ world.api_key
    /\ response.kind = "ok"
    /\ prices_result'.prices = OverlayPrices(response.trade_data)
    /\ cache_file'.kind = "object"
    /\ cache_file'.ts_kind = "number"
    /\ cache_file'.timestamp = now
    /\ cache_file'.prices = prices_result'.prices

ServedFromCache ==
    /\ cache_file.kind = "object"
    /\ cache_file.ts_kind = "number"
    /\ CacheAge(cache_file, now) < 7200
    /\ prices_result'.prices = cache_file.prices
    /\ cache_file' = cache_file

OldCache ==
    /\ cache_file.kind = "object"
    /\ \/ cache_file.ts_kind = "missing"
       \/ cache_file.ts_kind = "number" /\ CacheAge(cache_file, now) >= 7200

C18_CacheWindow ==
    [][price_calls' = price_calls + 1 =>
          /\ prices_result'.kind = "table" =>
                \/ prices_result'.prices = DEFAULT_PRICES
                \/ \E response \in TradeAnswers : Refreshed(response)
                \/ ServedFromCache
          /\ OldCache =>
                /\ prices_result'.kind = "table"
                /\ \/ prices_result'.prices = DEFAULT_PRICES
                         /\ cache_file' = cache_file
                   \/ \E response \in TradeAnswers : Refreshed(response)]_vars

\* a call has found a cache written 10000 seconds earlier, could not
\* refresh it, and has returned the default table instead of its prices
C18_Witness ==
    /\ price_calls > 0
    /\ cache_file.kind = "object"
    /\ cache_file.ts_kind = "number"
    /\ CacheAge(cache_file, now) = 10000
    /\ cache_file.prices = PartialPrices
    /\ prices_result = [kind |-> "table", prices |-> DEFAULT_PRICES]

\* ---------------------------------------------------------------------
\* C19  A limiter with limit N records at most N timestamps within any
\* window of 60 seconds, whatever the number of coroutines calling
\* execute_request at the same time: counted from any recorded timestamp,
\* the timestamps recorded less than 60 seconds later are at most N
\* (a window holding the most timestamps can always be moved forward to
\* begin at one of them).
InWindow(start) ==
    {i \in DOMAIN dispatched :
        dispatched[i] >= start /\ dispatched[i] < start + 600}

C19_AtMostNPerWindow ==
    \A first \in DOMAIN dispatched :
        Cardinality(InWindow(dispatched[first])) <= requests_per_minute

\* with a limit of 2, two requests were recorded at once, a third call slept
\* until 60.1 seconds after the first, and its request is in flight while
\* another coroutine waits for the lock
C19_Witness ==
    /\ requests_per_minute = 2
    /\ Len(dispatched) = 3
    /\ dispatched[2] = dispatched[1]
    /\ dispatched[3] = dispatched[1] + 601
    /\ Len(lock) = 2
    /\ l_pc[Head(lock)] = "post"

\* ---------------------------------------------------------------------
\* C20  Every manufacturing term of a city is multiplied by the project
\* multiplier of the resource manufactured.  After the pass over the first
\* city, the production dict holds, for each raw material, what the mines
\* and wells give less what the power plants and the factories take, the
\* factories' share being multiplied like their output: oil refinery by the
\* emergency gasoline reserve, steel mill by the iron works, aluminum
\* refinery by the bauxite works, munitions factory by the arms stockpile.
C20_ManufacturingMultiplied ==
    (pc \in {"cities", "done"} /\ city_index = 1) =>
        LET city == nation.cities[1]
            m == Multipliers(nation)
        IN /\ production.oil = Improvement(3, city.oil_well, 100)
                               - OilPowerOil(city)
                               - Improvement(3, city.oil_refinery, m.oil)
           /\ production.gasoline = Improvement(6, city.oil_refinery, m.oil)
           /\ production.iron = Improvement(3, city.iron_mine, 100)
                                - Improvement(3, city.steel_mill, m.steel)
           /\ production.coal = Improvement(3, city.coal_mine, 100)
                                - CoalPowerCoal(city)
                                - Improvement(3, city.steel_mill, m.steel)
           /\ production.steel = Improvement(9, city.steel_mill, m.steel)
           /\ production.bauxite =
                  Improvement(3, city.bauxite_mine, 100)
                  - Improvement(3, city.aluminum_refinery, m.aluminum)
           /\ production.aluminum =
                  Improvement(9, city.aluminum_refinery, m.aluminum)
           /\ production.lead =
                  Improvement(3, city.lead_mine, 100)
                  - Improvement(6, city.munitions_factory, m.munitions)
           /\ production.munitions =
                  Improvement(18, city.munitions_factory, m.munitions)

\* ---------------------------------------------------------------------
\* C21  The power plants of a city burn uranium min(ceil(infra / 1000),
\* nuclear plants * 2) * 2.4, coal min(ceil(infra / 100), coal plants * 5)
\* * 1.2 and oil min(ceil(infra / 100), oil plants * 5) * 1.2, ceil being
\* the mathematical ceiling, for an infrastructure with up to two decimals:
\* after the pass over the first city the uranium, coal and oil of the
\* production dict are what the mines, wells and factories give and take,
\* less these amounts.
Ceiling(hundredths, unit) == (hundredths + unit * 100 - 1) \div (unit * 100)

C21_PowerPlantsCeiling ==
    (pc \in {"cities", "done"} /\ city_index = 1) =>
        LET city == nation.cities[1]
            m == Multipliers(nation)
        IN /\ production.uranium =
                  Improvement(3, city.uranium_mine, m.uranium)
                  - Min(Ceiling(city.infrastructure, 1000),
                        city.nuclear_power * 2) * 2400
           /\ production.coal =
                  Improvement(3, city.coal_mine, 100)
                  - Improvement(3, city.steel_mill, m.steel)
                  - Min(Ceiling(city.infrastructure, 100),
                        city.coal_power * 5) * 1200
           /\ production.oil =
                  Improvement(3, city.oil_well, 100)
                  - Improvement(3, city.oil_refinery, m.oil)
                  - Min(Ceiling(city.infrastructure, 100),
                        city.oil_power * 5) * 1200

\* ---------------------------------------------------------------------
\* C22  The seasonal food modifier is 0.8 in the months 12, 1, 2 and 1.2 in
\* the months 6, 7, 8 for a Northern nation, 1.2 and 0.8 for a Southern one
\* (South America, Asia, Africa), 1 in every other month, and 1 for
\* Antarctica in every month: the food the first city's farms add to the
\* production dict is the one computed with that modifier.
StatedSeason(continent, month) ==
    IF continent = "an" THEN 10
    ELSE IF month \in {12, 1, 2}
         THEN (IF continent \in {"sa", "as", "af"} THEN 12 ELSE 8)
         ELSE IF month \in {6, 7, 8}
              THEN (IF continent \in {"sa", "as", "af"} THEN 8 ELSE 12)
              ELSE 10

FarmedFood(city, season) ==
    LET index == ContinentRadiation(nation, game_info)
                 + game_info.radiation.global
        k == IF nation.fallout_shelter THEN 17 ELSE 20
    IN Max(MulDiv(20000 - k * index,
                  BaseFoodProduction(city, nation) * season * 12, 20000), 0)

C22_SeasonalModifier ==
    (pc = "cities" /\ city_index = 1) =>
        production.food + PopulationFormula(nation.cities[1], today)
            = FarmedFood(nation.cities[1],
                         StatedSeason(nation.continent,
                                      game_info.game_date_month))

\* the farms of an African nation have produced in the month of August
C22_Witness ==
    /\ pc = "cities" /\ city_index = 1
    /\ nation.continent = "af"
    /\ game_info.game_date_month = 8
    /\ nation.cities[1].farm > 0
    /\ production.food + PopulationFormula(nation.cities[1], today) > 0

\* ---------------------------------------------------------------------
\* C23  The food a city adds is 12 * max(round2(farms * (1 + 0.5 * (farms
\* - 1) / 19) * rate) * seasonal * (1 + penalty), 0), with rate = land / 400
\* under mass irrigation and land / 500 without (halved for Antarctica) and
\* penalty = -(continent radiation + global radiation) / 1000, times 0.85
\* under a fallout shelter; the rounding to two decimals comes before the
\* season and the radiation; the amount is never negative.  In the model's
\* units: with base the rounded hundredths, the thousandths added are the
\* nearest to 12 * base * seasonal * (1 + penalty), and 0 when the penalty
\* reaches -1.
AddedFood == production.food + PopulationFormula(nation.cities[1], today)

\* round2(farms * (1 + 0.5 * (farms - 1) / 19) * rate), in hundredths
StatedBase(city) ==
    RoundHalfEven(city.farm * (37 + city.farm) * city.land * 100,
                  38 * (IF nation.mass_irrigation THEN 400 ELSE 500)
                     * (IF nation.continent = "an" THEN 2 ELSE 1))

\* 20000 * (1 + penalty)
StatedRadiation ==
    20000 - (IF nation.fallout_shelter THEN 17 ELSE 20)
            * (ContinentRadiation(nation, game_info)
               + game_info.radiation.global)

C23_FoodProduction ==
    (pc = "cities" /\ city_index = 1) =>
        LET product == StatedBase(nation.cities[1]) * 12
                       * StatedSeason(nation.continent,
                                      game_info.game_date_month)
            q == product \div 20000
            r == product % 20000
            rest == 20000 * (AddedFood - StatedRadiation * q)
                    - StatedRadiation * r
        IN /\ AddedFood >= 0
           /\ StatedRadiation <= 0 => AddedFood = 0
           /\ StatedRadiation > 0 => (rest <= 10000 /\ rest >= -10000)

\* ten farms in Antarctica under a radiation index of 1250: the product is
\* negative and nothing is added
C23_Witness ==
    /\ pc = "cities" /\ city_index = 1
    /\ nation.cities[1].farm = 10
    /\ StatedBase(nation.cities[1]) > 0
    /\ StatedRadiation < 0
    /\ AddedFood = 0

\* ---------------------------------------------------------------------
\* C24  No city is computed before the nation, the game information, the
\* color table, the market prices and, for a nation in an alliance, the
\* alliance color have been fetched: once the call has reached its city
\* loop, its history begins with these fetches, in this order and once
\* each, every city pass comes after them, and game_info is the record the
\* game-information fetch returned.
FetchesBeforeCities ==
    IF nation.alliance_id # 0
    THEN <<"fetch_nation_data", "fetch_game_info", "fetch_color_data",
           "get_pnw_market_prices", "alliance_color">>
    ELSE <<"fetch_nation_data", "fetch_game_info", "fetch_color_data",
           "get_pnw_market_prices">>

C24_FetchesBeforeCities ==
    (pc = "cities" \/ \E i \in DOMAIN events : events[i] = "city") =>
        /\ IsPrefix(FetchesBeforeCities, events)
        /\ \A i \in DOMAIN events :
              i > Len(FetchesBeforeCities) <=> events[i] = "city"
        /\ world.calls[nation_id].game.kind = "ok"
        /\ game_info = world.calls[nation_id].game.game_info
        /\ nation # None
        /\ market_prices # None

\* the first city of a nation that has an alliance has been computed, five
\* fetches before it
C24_Witness ==
    /\ nation # None
    /\ nation.alliance_id # 0
    /\ Len(events) = 6
    /\ events[5] = "alliance_color"
    /\ events[6] = "city"
    /\ city_index = 1

\* ---------------------------------------------------------------------
\* C25  When the caller cancels calculate_alliance_revenue while it is
\* processing a member or pausing between two members, the sums of the
\* members already processed remain available to the caller as a partial
\* result: the cancelled call hands back a report that carries the sums and
\* the counts accumulated so far.
C25_PartialResultOnCancel ==
    (/\ a_pc = "done"
     /\ processed_nations > 0
     /\ \E i \in DOMAIN a_events : a_events[i] = "cancel") =>
        /\ a_result.kind = "report"
        /\ a_result.production = alliance_production
        /\ a_result.income = alliance_income
        /\ a_result.processed_nations = processed_nations
        /\ a_result.failed_nations = failed_nations

\* ---------------------------------------------------------------------
\* C26  The pass over a city goes through on its guarded edge cases.  For
\* a city with land = 0 the population density is 0, so the disease rate
\* has no density term; for a city founded today or later age_days is 1,
\* the age modifier exactly 1, the age term of the food eaten 0 and the
\* population not scaled.  After the pass over such a first city, the food
\* of the production dict and the local population are the ones these
\* values give.
DiseaseLossWithoutDensity(city) ==
    MulDiv(city.infrastructure, city.infrastructure, 100000)
    - RDiv(city.infrastructure, 4)
    + MulDiv(PollutionIndex(city, nation), city.infrastructure, 20)
    - RDiv(HospitalModifier(city, nation) * city.infrastructure, 10)

C26_GuardedEdgeCases ==
    (pc = "cities" /\ city_index = 1) =>
        LET city == nation.cities[1]
            base == city.infrastructure
        IN /\ (city.land = 0 /\ city.date >= today) =>
                 population = base * 100
                              - Max(DiseaseLossWithoutDensity(city), 0)
                              - Max(CrimeLoss(city, nation), 0)
           /\ city.date >= today =>
                 /\ production.food =
                        FoodProduction(city, nation, game_info)
                        - MulDiv(base, base, 125000)
                 /\ population = base * 100
                                 - Max(DiseaseLoss(city, nation), 0)
                                 - Max(CrimeLoss(city, nation), 0)

\* the pass over a city on no land, founded tomorrow, whose disease rate is
\* positive
C26_Witness ==
    /\ pc = "cities" /\ city_index = 1
    /\ nation.cities[1].land = 0
    /\ nation.cities[1].date > today
    /\ DiseaseLossWithoutDensity(nation.cities[1]) > 0
    /\ population < nation.cities[1].infrastructure * 100

\* ---------------------------------------------------------------------
\* C27  The domestic policy changes only its own target.  Compared with the
\* report of the same nation under no policy: the production, the monetary
\* resources, the improvement upkeep and the color bonus are the same under
\* every policy; under OPEN_MARKETS the military upkeep is the same and the
\* color bonus is added to the multiplied gross income; under IMPERIALISM
\* the gross income and the gross total are the same, and the multiplier
\* applies to the whole military upkeep, spies included; under any other
\* policy the whole report is the same.
PolicyFactor ==
    IF ~nation.government_support_agency THEN 100
    ELSE IF nation.bureau_of_domestic_affairs THEN 175 ELSE 150

C27_PolicyFrame ==
    NationReported =>
        LET plain == [nation EXCEPT !.domestic_policy = "NONE"]
            loop == CityLoop(plain, game_info, today, Len(plain.cities))
            without == Revenue(plain, loop.production, loop.income,
                               color_bonuses, market_prices.prices,
                               alliance_color)
            policy == nation.domestic_policy
        IN /\ result.production = without.production
           /\ result.monetary_resources = without.monetary_resources
           /\ result.total_monetary_value = without.total_monetary_value
           /\ result.income.improvement_upkeep
                  = without.income.improvement_upkeep
           /\ result.income.color_bonus = without.income.color_bonus
           /\ policy = "OPEN_MARKETS" =>
                 /\ result.income.military_upkeep
                        = without.income.military_upkeep
                 /\ result.income.gross_income
                        = MulDiv(without.income.gross_income,
                                 10000 + PolicyFactor, 10000)
                 /\ result.income.gross_total
                        = result.income.gross_income
                          + without.income.color_bonus
           /\ policy = "IMPERIALISM" =>
                 /\ result.income.gross_income = without.income.gross_income
                 /\ result.income.gross_total = without.income.gross_total
                 /\ result.income.military_upkeep
                        = MulDiv(without.income.military_upkeep,
                                 2000 - PolicyFactor, 2000)
           /\ policy \notin {"OPEN_MARKETS", "IMPERIALISM"} =>
                 result = without

\* a report under OPEN_MARKETS for a beige nation with spies and the
\* government support agency, which earns the color bonus
C27_Witness ==
    /\ NationReported
    /\ nation.domestic_policy = "OPEN_MARKETS"
    /\ nation.government_support_agency
    /\ result.income.color_bonus > 0
    /\ result.income.military_upkeep > 0
    /\ nation.spies > 0

\* ---------------------------------------------------------------------
\* C28  execute_request holds the lock from the rate-limit check, through
\* the rate-limit sleep, until the request has completed: a coroutine that
\* sleeps for the rate limit or has a request in flight is the holder of
\* the lock, so at most one request is in flight, and no coroutine has a
\* request in flight or sleeps while another one sleeps.
InsideLock == {caller \in Callers : l_pc[caller] \in {"sleep", "post"}}

C28_LockHeldThroughRequest ==
    /\ \A caller \in InsideLock : lock # << >> /\ Head(lock) = caller
    /\ Cardinality(InsideLock) <= 1
    /\ \A caller \in Callers :
          l_pc[caller] = "acquire" =>
              \E i \in 1..Len(lock) : lock[i] = caller

\* one coroutine sleeps for the rate limit while another waits for the lock
C28_Witness ==
    \E sleeper \in Callers, waiting \in Callers :
        /\ l_pc[sleeper] = "sleep"
        /\ l_pc[waiting] = "acquire"
        /\ lock = <<sleeper, waiting>>
        /\ Len(request_times) = requests_per_minute

\* ---------------------------------------------------------------- C29

\* no handler that loads and saves bank_history.json is between its start
\* and its end
BankHandlersFinished ==
    /\ \A handler \in Handlers : m_pc[handler] = "idle"
    /\ h_pc = "idle"
    /\ s_pc = "idle"

\* the records bank_history.json holds
FiledRecords ==
    {bank_history.bank_records[i] : i \in 1..Len(bank_history.bank_records)}

\* C29: a bank record that on_message appended and saved is never lost
\* through hourly_member_resources_collection, scan_history or
\* set_alliance_id running at the same time: once all the handlers have
\* finished, every record once saved is still in the file.
C29_SavedRecordsKept ==
    BankHandlersFinished => saved \subseteq FiledRecords

\* ---------------------------------------------------------------- C30

\* two records of bank_records lie less than 300 seconds apart and have the
\* same total_value
TwinRecords(records) ==
    \E i, j \in 1..Len(records) :
        /\ i < j
        /\ AbsDiff(records[i].timestamp, records[j].timestamp) < 300
        /\ records[i].resources.total_value = records[j].resources.total_value

\* the handler is about to record a capture that matches a record of the file
\* within 5 minutes with the same total value
MatchingCapture(handler) ==
    /\ m_pc[handler] = "extract"
    /\ "total_value" \in DOMAIN m_capture[handler].resources
    /\ \E i \in 1..Len(bank_history.bank_records) :
          LET record == bank_history.bank_records[i]
          IN /\ AbsDiff(record.timestamp, m_capture[handler].timestamp) < 300
             /\ record.resources.total_value =
                   m_capture[handler].resources.total_value

\* C30: after any sequence of $get_bank captures handled by on_message,
\* several handlers woken by the same TARS response included, bank_records
\* never holds two records less than 300 seconds apart with an equal
\* total_value; a capture that matches a record within 5 minutes with the
\* same total value is skipped and leaves the history unchanged.
C30_NoTwinRecords ==
    /\ [](~TwinRecords(bank_history.bank_records))
    /\ [][\A handler \in Handlers :
             (MatchingCapture(handler) /\ m_pc'[handler] = "idle")
                 => bank_history' = bank_history]_vars

\* a handler woken by the same TARS response as another one is about to
\* record its capture while the file already holds the other one's record
C30_Witness ==
    \E handler \in Handlers :
        /\ MatchingCapture(handler)
        /\ \E i \in 1..Len(bank_history.bank_records) :
              /\ bank_history.bank_records[i].timestamp =
                    m_capture[handler].timestamp
              /\ bank_history.bank_records[i].requested_by # handler

====
